---------------------------- MODULE Spec2Model ----------------------------
(***************************************************************************)
(* Model of the PK coordinator of src/app/network/pk_server.py: the peer   *)
(* registry (clients), the active-challenge table (challenges) and the     *)
(* handlers that PkServer._handle_message dispatches to.  One step of the  *)
(* model is one datagram received by PkServer.run and processed to         *)
(* completion; the datagrams the handler passes to sock.sendto are         *)
(* collected, in call order, in the variable sent.                         *)
(*                                                                         *)
(* Numbers.  accuracy, speed and progress are Python floats; the model     *)
(* keeps them as integers counting units of 1e-6, so the 1e-6 threshold of *)
(* _select_winner is the integer Epsilon and progress 1.0 is Unit.         *)
(*                                                                         *)
(* Dictionaries.  clients and challenges are Python dicts; the model keeps *)
(* them as functions and does not keep their insertion order, which only   *)
(* decides the order of the entries of a user_list and of its sends.       *)
(*                                                                         *)
(* Widgets.  Every PkModeWidget on the host tries to own a coordinator     *)
(* (server) and owns at most one peer agent (client); clients, challenges  *)
(* and running are those of the coordinator that holds the port.           *)
(***************************************************************************)
EXTENDS Integers, Sequences, FiniteSets, TLC

VARIABLES
    clients,     \* PkServer.clients: student_id -> ClientInfo
    challenges,  \* PkServer.challenges: challenge_id -> ChallengeInfo
    now,         \* int(time.time()*1000) as the coordinator would read it
    running,     \* TRUE while the thread of PkServer.run is in its loop
    last,        \* the datagram handled by the latest step
    sent,        \* the sock.sendto calls of the latest step, in order
    offered,     \* history: <<requester, target>> of every relayed offer
    evaluated,   \* history: challenge_id of every challenge_result sent
    server,      \* PkModeWidget.server of every widget on the host
    agent,       \* PkModeWidget.client of every widget: its PkClient
    dialog       \* PkModeWidget.challenge_dialog of every widget

vars == <<clients, challenges, now, running, last, sent, offered, evaluated,
          server, agent, dialog>>

-----------------------------------------------------------------------------
(* Bounds of the model *)

NumAddrs == 3
NumNames == 2
NumEssays == 1
MaxTime == 1
MaxChallenges == 1
MaxOffers == 1
MaxEvaluations == 1
NumWidgets == 2
MaxTyped == 3
MaxNest == 1

(* Program constants, in units of 1e-6 *)

Epsilon == 1
Unit == 1000000

\* The seconds of the countdown of a challenge dialog.
CountdownFrom == 5

-----------------------------------------------------------------------------
(* Values *)

\* Python None: what message.get(key) gives for a missing key or a JSON null.
NoneVal == "<None>"

\* A JSON array: a value that is not hashable.
ListVal == "<list>"

Names == {"n" \o ToString(i) : i \in 1..NumNames}

FirstName == {"n1"}

\* (host, port) source addresses, two ports on each host.
Addr(i) == <<"h" \o ToString((i + 1) \div 2), 5000 + i>>

Addrs == {Addr(i) : i \in 1..NumAddrs}

Essays == {[title |-> "T" \o ToString(i), content |-> "C" \o ToString(i)] : i \in 1..NumEssays}

EmptyMap == [x \in {} |-> x]

ClientInfo(student_id, name, addr) ==
    [student_id |-> student_id, name |-> name, addr |-> addr]

\* A description that gives the port as well.
PublicViewWithPort(client) ==
    [student_id |-> client.student_id, name |-> client.name, ip |-> client.addr[1],
     port |-> client.addr[2]]

\* The dict literal {"student_id": .., "name": .., "ip": client.addr[0]}.
PublicView(client) ==
    [student_id |-> client.student_id, name |-> client.name, ip |-> client.addr[1]]

Send(payload, addr) == [to |-> addr, payload |-> payload]

\* A write that keeps the value of a key that is already there.
PutKeepsOld(map, key, value) ==
    [k \in (DOMAIN map) \cup {key} |-> IF k \in DOMAIN map THEN map[k] ELSE value]

\* dict[key] = value
Put(map, key, value) ==
    [k \in (DOMAIN map) \cup {key} |-> IF k = key THEN value ELSE map[k]]

\* A pop that removes nothing.
PopNothing(map, key) == map

\* dict.pop(key)
Pop(map, key) == [k \in (DOMAIN map) \ {key} |-> map[k]]

\* dict.get(key, default)
Get(map, key, default) == IF key \in DOMAIN map THEN map[key] ELSE default

RECURSIVE SetToSeq(_)
SetToSeq(S) ==
    IF S = {} THEN <<>>
    ELSE LET x == CHOOSE y \in S : TRUE IN <<x>> \o SetToSeq(S \ {x})


-----------------------------------------------------------------------------
(* Inbound datagrams *)

\* A key that the JSON object does not have, where the handler reads it
\* with a default: message.get(key, "").
Absent == "<absent>"

\* str(message.get(key, "")): the default for an absent key, the text
\* "None" for a JSON null, the text itself for a JSON string.
Str(value) ==
    IF value = Absent THEN "" ELSE IF value = NoneVal THEN "None" ELSE value

\* A strip that trims nothing.
StripNothing(text) == text

\* text.strip() on the texts the model sends in a register message.
Strip(text) == IF text = " " THEN "" ELSE text

\* bool(message.get("accepted")) of JSON true and JSON false.
AcceptedVals == {"true", "false"}

Bool(value) == value = "true"

\* A number field: a JSON number n (in units of 1e-6), an absent key, or a
\* JSON string that is no number.
Num(n) == [kind |-> "num", n |-> n]

Missing == [kind |-> "missing", n |-> 0]

BadNum == [kind |-> "str", n |-> 0]

IsFloat(value) == value.kind \in {"num", "missing"}

\* float(message.get(key, 0.0)) where it returns.
Float(value) == IF value.kind = "num" THEN value.n ELSE 0

\* f"{challenger.student_id}-{responder.student_id}-{int(time.time()*1000)}"
MakeChallengeId(challenger_id, responder_id, time) ==
    challenger_id \o "-" \o responder_id \o "-" \o ToString(time)

\* A challenge_id no accept produces within the bounds.
StrayId == "b-b-9"

\* (accuracy, speed) pairs of result messages: the spec's examples
\* (0.95 vs 0.90; 0.90/0.90 with 40 vs 55; 45/45), a pair one Epsilon apart.
Score(accuracy, speed) == <<accuracy, speed>>

AccuracyOf(score) == score[1]

SpeedOf(score) == score[2]

\* The part of the network a specification explores: the peer ids that
\* occur in datagrams, the addresses each registers from, the values that
\* are no registered id (junk), the scores reported, and which of the
\* observation variables (last; offered and evaluated) are kept.
Env(peers, addrs, junk, scores, keepLast, keepHistory) ==
    [peers |-> peers, addrs |-> addrs, junk |-> junk, scores |-> scores,
     keepLast |-> keepLast, keepHistory |-> keepHistory,
     names |-> FirstName, extra |-> {}, progress |-> {}]

\* Values of an id field (student_id, target_id, challenger_id).
IdVals(env) == env.peers \cup env.junk

RegisterMsg(student_id, name) ==
    [type |-> "register", student_id |-> student_id, name |-> name]

\* Register datagrams: every peer under every name of the environment from
\* each of its addresses, two that lack an id or a name, and the extra ones
\* of the environment.
RegisterInputs(env) ==
    UNION {{<<RegisterMsg(s, n), a>> : n \in env.names, a \in env.addrs[s]} : s \in env.peers}
    \cup {<<RegisterMsg("", "n1"), Addr(1)>>, <<RegisterMsg("a", " "), Addr(1)>>}
    \cup env.extra

\* Register datagrams whose id or name is absent, empty, blank or null.
OddRegisters ==
    {<<RegisterMsg(s, "n1"), Addr(1)>> : s \in {Absent, "", " ", NoneVal}}
    \cup {<<RegisterMsg("a", n), Addr(1)>> : n \in {Absent, "", " ", NoneVal}}

\* Register datagrams whose payload names an address, a host and a port
\* other than those of the socket they come from.
SpoofedRegisters ==
    {<<[type |-> "register", student_id |-> "a", name |-> "n1",
        addr |-> Addr(3), ip |-> Addr(3)[1], port |-> Addr(3)[2]], Addr(1)>>,
     <<[type |-> "register", student_id |-> "b", name |-> "n1",
        addr |-> Addr(1), ip |-> Addr(1)[1], port |-> Addr(1)[2]], Addr(3)>>}

DeregisterMsgs(env) == {[type |-> "deregister", student_id |-> s] : s \in IdVals(env)}

ChallengeRequestMsgs(env) ==
    {[type |-> "challenge_request", student_id |-> s, target_id |-> t] :
        s \in IdVals(env), t \in IdVals(env)}

ChallengeResponseMsgs(env) ==
    {[type |-> "challenge_response", student_id |-> s, challenger_id |-> c, accepted |-> a] :
        s \in IdVals(env), c \in IdVals(env), a \in AcceptedVals}

\* The challenge ids a result or progress message may name: the active
\* ones, the evaluated ones, and one that was never allocated.
NamedChallengeIds == (DOMAIN challenges) \cup evaluated \cup {StrayId}

ResultMsgs(env) ==
    {[type |-> "result", challenge_id |-> c, student_id |-> s,
      accuracy |-> AccuracyOf(sc), speed |-> SpeedOf(sc)] :
        c \in NamedChallengeIds, s \in IdVals(env), sc \in env.scores}

\* float(value) guarded by `except (TypeError, ValueError): return default`.
ToFloat(value) == IF value.kind = "num" THEN value.n ELSE 0

\* Progress datagrams: half way, beyond the end, and a progress that is no
\* number; accuracy and speed are those of one score.
ProgressVals == {Num(Unit \div 2), Num(Unit + Unit \div 2), BadNum}

\* Progress 1.7, -0.3, 1.0, 0.0 and one step of 1e-6 beyond either end, and
\* an absent progress.
EdgeProgressVals ==
    {Num((17 * Unit) \div 10), Num(0 - (3 * Unit) \div 10), Num(Unit), Num(0),
     Num(Unit + Epsilon), Num(0 - Epsilon), Missing}

ProgressMsgs(env) ==
    {[type |-> "progress", challenge_id |-> c, student_id |-> s, progress |-> p,
      accuracy |-> Num(Unit), speed |-> Missing] :
        c \in (DOMAIN challenges) \cup env.junk, s \in env.peers,
        p \in ProgressVals \cup env.progress}

\* The handlers other than _handle_register are not given the sender's
\* address; the model records none for their datagrams.
NoAddr == <<"-", 0>>

Datagram(message, addr) == [payload |-> message, addr |-> addr]

-----------------------------------------------------------------------------
(* PkServer *)

\* A broadcast that reaches the first client only.
BroadcastUserListOnce(registry) ==
    LET order == SetToSeq(DOMAIN registry)
        user_list == [i \in 1..Len(order) |-> PublicView(registry[order[i]])]
        payload == [type |-> "user_list", users |-> user_list]
    IN IF order = <<>> THEN <<>> ELSE <<Send(payload, registry[order[1]].addr)>>

\* _broadcast_user_list: one user_list, holding the public view of every
\* client, sent to every client.
BroadcastUserList(registry) ==
    LET order == SetToSeq(DOMAIN registry)
        user_list == [i \in 1..Len(order) |-> PublicView(registry[order[i]])]
        payload == [type |-> "user_list", users |-> user_list]
    IN [i \in 1..Len(order) |-> Send(payload, registry[order[i]].addr)]

\* _select_winner with the two comparisons in the other order.
SelectWinnerSpeedFirst(challenger_stats, opponent_stats, challenge) ==
    LET c_acc == Get(challenger_stats, "accuracy", 0)
        o_acc == Get(opponent_stats, "accuracy", 0)
        c_speed == Get(challenger_stats, "speed", 0)
        o_speed == Get(opponent_stats, "speed", 0)
        Abs(x) == IF x < 0 THEN -x ELSE x
    IN IF Abs(c_speed - o_speed) > Epsilon
       THEN IF c_speed > o_speed THEN challenge.challenger.student_id
            ELSE challenge.opponent.student_id
       ELSE IF Abs(c_acc - o_acc) > Epsilon
       THEN IF c_acc > o_acc THEN challenge.challenger.student_id
            ELSE challenge.opponent.student_id
       ELSE NoneVal

\* _select_winner comparing the differences with >= 1e-6.
SelectWinnerAtEpsilon(challenger_stats, opponent_stats, challenge) ==
    LET c_acc == Get(challenger_stats, "accuracy", 0)
        o_acc == Get(opponent_stats, "accuracy", 0)
        c_speed == Get(challenger_stats, "speed", 0)
        o_speed == Get(opponent_stats, "speed", 0)
        Abs(x) == IF x < 0 THEN -x ELSE x
    IN IF Abs(c_acc - o_acc) >= Epsilon
       THEN IF c_acc > o_acc THEN challenge.challenger.student_id
            ELSE challenge.opponent.student_id
       ELSE IF Abs(c_speed - o_speed) >= Epsilon
       THEN IF c_speed > o_speed THEN challenge.challenger.student_id
            ELSE challenge.opponent.student_id
       ELSE NoneVal

\* _select_winner: accuracy first, then speed, else None.
SelectWinner(challenger_stats, opponent_stats, challenge) ==
    LET c_acc == Get(challenger_stats, "accuracy", 0)
        o_acc == Get(opponent_stats, "accuracy", 0)
        c_speed == Get(challenger_stats, "speed", 0)
        o_speed == Get(opponent_stats, "speed", 0)
        Abs(x) == IF x < 0 THEN -x ELSE x
    IN IF Abs(c_acc - o_acc) > Epsilon
       THEN IF c_acc > o_acc THEN challenge.challenger.student_id
            ELSE challenge.opponent.student_id
       ELSE IF Abs(c_speed - o_speed) > Epsilon
       THEN IF c_speed > o_speed THEN challenge.challenger.student_id
            ELSE challenge.opponent.student_id
       ELSE NoneVal

\* An evaluation that scores a side without a result by the result of a peer
\* who is no side.
EvaluateChallengeOfSubmitters(challenge_id, challenge) ==
    LET others == (DOMAIN challenge.results)
                     \ {challenge.challenger.student_id, challenge.opponent.student_id}
        Stats(side) == IF side \in DOMAIN challenge.results THEN challenge.results[side]
                       ELSE IF others = {} THEN EmptyMap
                       ELSE challenge.results[CHOOSE p \in others : TRUE]
        winner_id == SelectWinner(Stats(challenge.challenger.student_id),
                                  Stats(challenge.opponent.student_id), challenge)
        payload == [type |-> "challenge_result", challenge_id |-> challenge_id,
                    winner |-> winner_id, results |-> challenge.results]
    IN << Send(payload, challenge.challenger.addr),
          Send(payload, challenge.opponent.addr) >>

\* An evaluation that tells the opponent alone.
EvaluateChallengeOpponentOnly(challenge_id, challenge) ==
    LET challenger_stats == Get(challenge.results, challenge.challenger.student_id, EmptyMap)
        opponent_stats == Get(challenge.results, challenge.opponent.student_id, EmptyMap)
        winner_id == SelectWinner(challenger_stats, opponent_stats, challenge)
        payload == [type |-> "challenge_result", challenge_id |-> challenge_id,
                    winner |-> winner_id, results |-> challenge.results]
    IN << Send(payload, challenge.opponent.addr) >>

\* The sends of _evaluate_challenge for the record popped from the table.
EvaluateChallenge(challenge_id, challenge) ==
    LET challenger_stats == Get(challenge.results, challenge.challenger.student_id, EmptyMap)
        opponent_stats == Get(challenge.results, challenge.opponent.student_id, EmptyMap)
        winner_id == SelectWinner(challenger_stats, opponent_stats, challenge)
        payload == [type |-> "challenge_result", challenge_id |-> challenge_id,
                    winner |-> winner_id, results |-> challenge.results]
    IN << Send(payload, challenge.challenger.addr),
          Send(payload, challenge.opponent.addr) >>

\* An exception leaves the handler and PkServer.run: the thread ends.
Crash ==
    /\ running' = FALSE
    /\ sent' = <<>>
    /\ UNCHANGED <<clients, challenges>>

Ignore ==
    /\ sent' = <<>>
    /\ UNCHANGED <<clients, challenges, running>>

\* An address read from the payload where the payload has one.
PayloadAddr(message, addr) ==
    IF "addr" \in DOMAIN message THEN message.addr ELSE addr

\* The addr of `data, addr = self.sock.recvfrom(16384)`, which run passes to
\* _handle_message and on to _handle_register.
SourceAddr(message, addr) == addr

HandleRegister(message, addr) ==
    LET student_id == Strip(Str(message.student_id))
        name == Strip(Str(message.name))
    IN IF student_id = "" \/ name = ""
       THEN Ignore
       ELSE /\ clients' = Put(clients, student_id,
                              ClientInfo(student_id, name, SourceAddr(message, addr)))
            /\ sent' = BroadcastUserList(clients')
            /\ UNCHANGED <<challenges, running>>

\* A deregister branch that broadcasts the list although nobody left.
PeerMissingBroadcasts(message) ==
    /\ sent' = BroadcastUserList(clients)
    /\ UNCHANGED <<clients, challenges, running>>

\* `if student_id and student_id in self.clients:` is false: nothing is done.
PeerMissing(message) == Ignore

HandleDeregister(message) ==
    LET student_id == message.student_id
    IN IF student_id \in {NoneVal, ""} THEN PeerMissing(message)
       ELSE IF student_id = ListVal THEN Crash
       ELSE IF student_id \notin DOMAIN clients THEN PeerMissing(message)
       ELSE /\ clients' = Pop(clients, student_id)
            /\ sent' = BroadcastUserList(clients')
            /\ UNCHANGED <<challenges, running>>

\* A handler that answers an unknown target with a note to the requester.
TargetMissingNotifies(message) ==
    IF message.student_id \in DOMAIN clients
    THEN /\ sent' = <<Send([type |-> "challenge_response", accepted |-> FALSE,
                            from |-> [student_id |-> message.target_id]],
                           clients[message.student_id].addr)>>
         /\ UNCHANGED <<clients, challenges, running>>
    ELSE Ignore

\* `if target_id not in self.clients: return`
TargetMissing(message) == Ignore

\* An offer relayed in the name the message gives although no such peer is
\* registered.
ChallengerMissingRelays(message) ==
    /\ sent' = <<Send([type |-> "challenge_request",
                       from |-> [student_id |-> message.student_id, name |-> "",
                                 ip |-> ""]],
                      clients[message.target_id].addr)>>
    /\ UNCHANGED <<clients, challenges, running>>

\* `if challenger is None: return`
ChallengerMissing(message) == Ignore

\* The offer sent to the requester as well as to the target.
RelayOfferEcho(payload, challenger, opponent) ==
    <<Send(payload, opponent.addr), Send(payload, challenger.addr)>>

\* `self.sock.sendto(json.dumps(payload).encode("utf-8"), opponent.addr)`
RelayOffer(payload, challenger, opponent) == <<Send(payload, opponent.addr)>>

HandleChallengeRequest(message) ==
    LET target_id == message.target_id
        challenger_id == message.student_id
    IN IF target_id = ListVal THEN Crash
       ELSE IF target_id \notin DOMAIN clients THEN TargetMissing(message)
       ELSE IF challenger_id = ListVal THEN Crash
       ELSE IF challenger_id \notin DOMAIN clients THEN ChallengerMissing(message)
       ELSE LET challenger == clients[challenger_id]
                opponent == clients[target_id]
                payload == [type |-> "challenge_request", from |-> PublicView(challenger)]
            IN /\ sent' = RelayOffer(payload, challenger, opponent)
               /\ UNCHANGED <<clients, challenges, running>>

\* The relayed decision claiming acceptance whatever was decided.
ResponsePayloadAccepting(accepted, responder) ==
    [type |-> "challenge_response", accepted |-> TRUE, from |-> PublicView(responder)]

\* response_payload
ResponsePayload(accepted, responder) ==
    [type |-> "challenge_response", accepted |-> accepted, from |-> PublicView(responder)]

\* The start message sent to the challenger alone.
StartSendsChallengerOnly(start_payload, challenger, responder) ==
    <<Send(start_payload, challenger.addr)>>

\* The two sendto calls of raw, the encoded start_payload.
StartSends(start_payload, challenger, responder) ==
    <<Send(start_payload, challenger.addr), Send(start_payload, responder.addr)>>

HandleChallengeResponse(message, essay) ==
    LET accepted == Bool(message.accepted)
        challenger_id == message.challenger_id
        responder_id == message.student_id
    IN IF challenger_id = ListVal \/ responder_id = ListVal THEN Crash
       ELSE IF challenger_id \notin DOMAIN clients \/ responder_id \notin DOMAIN clients
       THEN Ignore
       ELSE LET challenger == clients[challenger_id]
                responder == clients[responder_id]
                response_payload == ResponsePayload(accepted, responder)
                challenge_id ==
                    MakeChallengeId(challenger.student_id, responder.student_id, now)
                challenge_info ==
                    [challenger |-> challenger, opponent |-> responder,
                     essay |-> [title |-> essay.title, content |-> essay.content],
                     results |-> EmptyMap]
                start_payload ==
                    [type |-> "start_challenge", challenge_id |-> challenge_id,
                     essay |-> challenge_info.essay,
                     participants |-> <<PublicView(challenger), PublicView(responder)>>]
            IN IF accepted
               THEN /\ challenges' = Put(challenges, challenge_id, challenge_info)
                    /\ sent' = <<Send(response_payload, challenger.addr)>>
                               \o StartSends(start_payload, challenger, responder)
                    /\ UNCHANGED <<clients, running>>
               ELSE /\ sent' = <<Send(response_payload, challenger.addr)>>
                    /\ UNCHANGED <<clients, challenges, running>>

\* A result handler that records the result of a sender it does not know.
ResultRejectedRecords(message) ==
    IF message.challenge_id \in DOMAIN challenges
    THEN /\ challenges' = [challenges EXCEPT ![message.challenge_id].results =
                              Put(@, message.student_id,
                                  [accuracy |-> Float(message.accuracy),
                                   speed |-> Float(message.speed)])]
         /\ sent' = <<>>
         /\ UNCHANGED <<clients, running>>
    ELSE Ignore

\* `if challenge_id not in self.challenges or student_id not in
\* self.clients: return`
ResultRejected(message) == Ignore

\* A write that keeps the first result of a side.
RecordFirst(results, student_id, stats) ==
    IF student_id \in DOMAIN results THEN results ELSE Put(results, student_id, stats)

\* `challenge.results[student_id] = {...}`
Record(results, student_id, stats) == Put(results, student_id, stats)

HandleResult(message) ==
    LET challenge_id == message.challenge_id
        student_id == message.student_id
    IN IF challenge_id = ListVal THEN Crash
       ELSE IF challenge_id \notin DOMAIN challenges THEN ResultRejected(message)
       ELSE IF student_id = ListVal THEN Crash
       ELSE IF student_id \notin DOMAIN clients THEN ResultRejected(message)
       ELSE IF ~IsFloat(message.accuracy) \/ ~IsFloat(message.speed) THEN Crash
       ELSE LET challenge == challenges[challenge_id]
                results == Record(challenge.results, student_id,
                                  [accuracy |-> Float(message.accuracy),
                                   speed |-> Float(message.speed)])
                recorded == [challenge EXCEPT !.results = results]
            IN IF Cardinality(DOMAIN results) < 2
               THEN /\ challenges' = [challenges EXCEPT ![challenge_id] = recorded]
                    /\ sent' = <<>>
                    /\ UNCHANGED <<clients, running>>
               ELSE /\ challenges' = Pop(challenges, challenge_id)
                    /\ sent' = EvaluateChallenge(challenge_id, recorded)
                    /\ UNCHANGED <<clients, running>>

Max(x, y) == IF x > y THEN x ELSE y

\* A min that returns its first argument.
MinFirst(x, y) == x

Min(x, y) == IF x < y THEN x ELSE y

\* A progress handler that tells the first registered client what it drops.
ProgressRejectedAnswers(message) ==
    IF clients = EmptyMap THEN Ignore
    ELSE /\ sent' = <<Send([type |-> "progress_update", challenge_id |-> message.challenge_id,
                            student_id |-> message.student_id, accuracy |-> 0,
                            speed |-> 0, progress |-> 0],
                           clients[CHOOSE k \in DOMAIN clients : TRUE].addr)>>
         /\ UNCHANGED <<clients, challenges, running>>

\* The three early returns of _handle_progress.
ProgressRejected(message) == Ignore

\* The update sent to the other side only.
ProgressSendsOther(payload, challenge) ==
    IF payload.student_id = challenge.challenger.student_id
    THEN <<Send(payload, challenge.opponent.addr)>>
    ELSE <<Send(payload, challenge.challenger.addr)>>

\* The update sent to the addresses the two sides have in the registry now.
ProgressSendsRegistered(payload, challenge) ==
    LET AddrNow(side) == IF side.student_id \in DOMAIN clients
                         THEN clients[side.student_id].addr ELSE side.addr
    IN << Send(payload, AddrNow(challenge.challenger)),
          Send(payload, AddrNow(challenge.opponent)) >>

\* The two sendto calls of raw, the encoded progress_update.
ProgressSends(payload, challenge) ==
    << Send(payload, challenge.challenger.addr), Send(payload, challenge.opponent.addr) >>

HandleProgress(message) ==
    LET challenge_id == message.challenge_id
        student_id == message.student_id
    IN IF challenge_id \in {NoneVal, ""} \/ student_id \in {NoneVal, ""}
       THEN ProgressRejected(message)
       ELSE IF challenge_id = ListVal THEN Crash
       ELSE IF challenge_id \notin DOMAIN challenges THEN ProgressRejected(message)
       ELSE LET challenge == challenges[challenge_id]
                progress_value == Max(0, Min(ToFloat(message.progress), Unit))
                payload == [type |-> "progress_update", challenge_id |-> challenge_id,
                            student_id |-> student_id,
                            accuracy |-> ToFloat(message.accuracy),
                            speed |-> ToFloat(message.speed),
                            progress |-> progress_value]
            IN IF student_id \notin {challenge.challenger.student_id,
                                     challenge.opponent.student_id}
               THEN ProgressRejected(message)
               ELSE /\ sent' = ProgressSends(payload, challenge)
                    /\ UNCHANGED <<clients, challenges, running>>

-----------------------------------------------------------------------------
(* Observation: the datagram handled, and the history of what was sent *)

SentOfType(type) == {i \in 1..Len(sent) : sent[i].payload.type = type}

Observe(env, datagram) ==
    /\ last' = IF env.keepLast THEN datagram ELSE last
    /\ IF env.keepHistory
       THEN /\ offered' = offered \cup
                 {<<sent'[i].payload.from.student_id, datagram.payload.target_id>> :
                     i \in {j \in 1..Len(sent') : sent'[j].payload.type = "challenge_request"}}
            /\ evaluated' = evaluated \cup
                 {sent'[i].payload.challenge_id :
                     i \in {j \in 1..Len(sent') : sent'[j].payload.type = "challenge_result"}}
            /\ Cardinality(offered') <= MaxOffers
            /\ Cardinality(evaluated') <= MaxEvaluations
       ELSE UNCHANGED <<offered, evaluated>>
    /\ UNCHANGED <<server, agent, dialog>>

-----------------------------------------------------------------------------
(* One step: PkServer.run receives a datagram and dispatches it *)

Register(env) ==
    \E input \in RegisterInputs(env) :
        /\ running
        /\ HandleRegister(input[1], input[2])
        /\ Observe(env, Datagram(input[1], input[2]))
        /\ UNCHANGED now

Deregister(env) ==
    \E message \in DeregisterMsgs(env) :
        /\ running
        /\ HandleDeregister(message)
        /\ Observe(env, Datagram(message, NoAddr))
        /\ UNCHANGED now

ChallengeRequest(env) ==
    \E message \in ChallengeRequestMsgs(env) :
        /\ running
        /\ HandleChallengeRequest(message)
        /\ Observe(env, Datagram(message, NoAddr))
        /\ UNCHANGED now

ChallengeResponse(env) ==
    \E message \in ChallengeResponseMsgs(env), essay \in Essays :
        /\ running
        /\ HandleChallengeResponse(message, essay)
        /\ Cardinality(DOMAIN challenges') <= MaxChallenges
        /\ Observe(env, Datagram(message, NoAddr))
        /\ UNCHANGED now

Result(env) ==
    \E message \in ResultMsgs(env) :
        /\ running
        /\ HandleResult(message)
        /\ Observe(env, Datagram(message, NoAddr))
        /\ UNCHANGED now

Progress(env) ==
    \E message \in ProgressMsgs(env) :
        /\ running
        /\ HandleProgress(message)
        /\ Observe(env, Datagram(message, NoAddr))
        /\ UNCHANGED now

\* The widgets of the host.
Widgets == 1..NumWidgets

\* The first widget owns the coordinator, which holds the port; no other
\* widget has been constructed.
FirstServes == [w \in Widgets |-> IF w = 1 THEN "serving" ELSE "none"]

\* self.client = None in every widget.
NoAgent ==
    [w \in Widgets |-> [state |-> "none", student_id |-> NoneVal, name |-> NoneVal,
                        given |-> NoneVal, call |-> "none", out |-> <<>>]]

\* self.challenge_dialog = None in every widget.  A dialog holds the fields
\* of ChallengeDialog, the text of user_text (typed) and whether it is read
\* only, whether countdown_timer runs, and the number of submit_result calls
\* it has made (submits).
NoDialog ==
    [w \in Widgets |-> [state |-> "none", countdown_value |-> 0, timer |-> FALSE,
                        readOnly |-> TRUE, typed |-> <<>>, submitted |-> FALSE,
                        submits |-> 0]]

\* The wall clock passes a millisecond boundary between two datagrams.
Tick ==
    /\ running
    /\ now < MaxTime
    /\ now' = now + 1
    /\ UNCHANGED <<clients, challenges, running, last, sent, offered, evaluated,
                   server, agent, dialog>>

Init ==
    /\ clients = EmptyMap
    /\ challenges = EmptyMap
    /\ now = 0
    /\ running = TRUE
    /\ last = Datagram([type |-> "none"], NoAddr)
    /\ sent = <<>>
    /\ offered = {}
    /\ evaluated = {}
    /\ server = FirstServes
    /\ agent = NoAgent
    /\ dialog = NoDialog

Next(env) ==
    \/ Register(env)
    \/ Deregister(env)
    \/ ChallengeRequest(env)
    \/ ChallengeResponse(env)
    \/ Result(env)
    \/ Progress(env)
    \/ Tick

\* (accuracy 1.0, speed 40) and (accuracy 1.0, speed 35).
FewScores ==
    { Score(Num(1000000), Num(40000000)),
      Score(Num(1000000), Num(35000000)) }

\* Three peers.  "a" and "a-a" each own one socket on the same host; "b"
\* registers from the socket of "a-a" or from sockets of its own.  The ids
\* "a-a" and "a" make two ordered pairs that concatenate to the same text.
LabAddrs == [p \in {"a", "a-a", "b"} |->
                IF p = "a" THEN {Addr(1)}
                ELSE IF p = "a-a" THEN {Addr(2)}
                ELSE {Addr(i) : i \in 2..NumAddrs}]

Lab == Env({"a", "a-a", "b"}, LabAddrs, {NoneVal}, FewScores, TRUE, FALSE)

Spec == Init /\ [][Next(Lab)]_vars

\* Two peers of one socket each, with the history variables kept.
PairAddrs == [p \in {"a", "b"} |-> IF p = "a" THEN {Addr(1)} ELSE {Addr(3)}]

Pair == Env({"a", "b"}, PairAddrs, {}, FewScores, TRUE, TRUE)

SpecHistory == Init /\ [][Next(Pair)]_vars

-----------------------------------------------------------------------------
(* Winner selection: the two result messages of one active challenge *)

\* Accuracies 0.90, 0.900001, 0.900002, 0.95 and speeds 40, 40.000001, 45,
\* 55: differences below, at and above the 1e-6 threshold; a result without
\* numbers, and one whose accuracy is no number.
ManyScores ==
    {Score(Num(acc), Num(speed)) :
        acc \in {900000, 900001, 900002, 950000},
        speed \in {40000000, 40000001, 45000000, 55000000}}
    \cup {Score(Missing, Missing), Score(BadNum, Num(40000000))}

Arena == [Env({"a", "b"}, PairAddrs, {ListVal}, ManyScores, TRUE, FALSE)
             EXCEPT !.progress = EdgeProgressVals]

\* A state Spec reaches: "a" and "b" have registered and the coordinator
\* has just handled the acceptance, by "b", of a challenge of "a".
InitArena ==
    LET a == ClientInfo("a", "n1", Addr(1))
        b == ClientInfo("b", "n1", Addr(3))
        essay == [title |-> "T1", content |-> "C1"]
        challenge_id == MakeChallengeId("a", "b", 0)
        start_payload ==
            [type |-> "start_challenge", challenge_id |-> challenge_id, essay |-> essay,
             participants |-> <<PublicView(a), PublicView(b)>>]
    IN /\ clients = [p \in {"a", "b"} |-> IF p = "a" THEN a ELSE b]
       /\ challenges = [c \in {challenge_id} |->
                           [challenger |-> a, opponent |-> b, essay |-> essay,
                            results |-> EmptyMap]]
       /\ now = 0
       /\ running = TRUE
       /\ last = Datagram([type |-> "challenge_response", student_id |-> "b",
                           challenger_id |-> "a", accepted |-> "true"], NoAddr)
       /\ sent = << Send([type |-> "challenge_response", accepted |-> TRUE,
                          from |-> PublicView(b)], a.addr),
                    Send(start_payload, a.addr),
                    Send(start_payload, b.addr) >>
       /\ offered = {}
       /\ evaluated = {}
       /\ server = FirstServes
       /\ agent = NoAgent
       /\ dialog = NoDialog

NextArena == Result(Arena) \/ Progress(Arena)

SpecArena == InitArena /\ [][NextArena]_vars

-----------------------------------------------------------------------------
(* Results and progress of one challenge among three registered peers *)

\* accuracy 0.90 at speed 55 besides the two scores of accuracy 1.0.
RelayScores == FewScores \cup {Score(Num(900000), Num(55000000))}

\* "a", "b" and "a-a" are registered and "c" is not; ids that are null,
\* empty or name no challenge.
Relay == Env({"a", "b", "a-a", "c"}, LabAddrs, {NoneVal, "", StrayId}, RelayScores,
             TRUE, FALSE)

\* A state Spec reaches: the challenge of "a", accepted by "b", is active
\* while "a-a" is registered too, and the result of "a", accuracy 1.0 at
\* speed 40, has just been recorded.
InitRelay ==
    LET a == ClientInfo("a", "n1", Addr(1))
        b == ClientInfo("b", "n1", Addr(3))
        aa == ClientInfo("a-a", "n1", Addr(2))
        challenge_id == MakeChallengeId("a", "b", 0)
        first == [accuracy |-> 1000000, speed |-> 40000000]
    IN /\ clients = [p \in {"a", "b", "a-a"} |->
                        IF p = "a" THEN a ELSE IF p = "b" THEN b ELSE aa]
       /\ challenges = [c \in {challenge_id} |->
                           [challenger |-> a, opponent |-> b,
                            essay |-> [title |-> "T1", content |-> "C1"],
                            results |-> [p \in {"a"} |-> first]]]
       /\ now = 0
       /\ running = TRUE
       /\ last = Datagram([type |-> "result", challenge_id |-> challenge_id,
                           student_id |-> "a", accuracy |-> Num(first.accuracy),
                           speed |-> Num(first.speed)], NoAddr)
       /\ sent = <<>>
       /\ offered = {}
       /\ evaluated = {}
       /\ server = FirstServes
       /\ agent = NoAgent
       /\ dialog = NoDialog

NextRelay == Result(Relay) \/ Progress(Relay)

SpecRelay == InitRelay /\ [][NextRelay]_vars

-----------------------------------------------------------------------------
(* Datagrams that are no message of a known type *)

\* What PkServer.run receives: bytes that are UTF-8 text or not, text that
\* is JSON or not, a JSON value that is an object or not, and what
\* message.get("type") gives (None where the object has no such key).
Raw(utf8, json, object, type) ==
    [utf8 |-> utf8, json |-> json, object |-> object, type |-> type]

StrayDatagrams ==
    { Raw(FALSE, FALSE, FALSE, NoneVal),    \* b"\xff"
      Raw(TRUE, FALSE, FALSE, NoneVal),     \* {"type":
      Raw(TRUE, TRUE, FALSE, NoneVal),      \* [1]
      Raw(TRUE, TRUE, TRUE, NoneVal),       \* {"student_id": "a"}
      Raw(TRUE, TRUE, TRUE, "ping"),        \* {"type": "ping"}
      Raw(TRUE, TRUE, TRUE, "user_list") }  \* {"type": "user_list", "users": []}

KnownTypes ==
    {"register", "deregister", "challenge_request", "challenge_response",
     "progress", "result"}

\* A dispatcher that answers what it does not know.
UnknownTypeAnswers(message, addr) ==
    /\ sent' = <<Send([type |-> "error"], addr)>>
    /\ UNCHANGED <<clients, challenges, running>>

\* _handle_message where no branch of the if/elif chain matches.
UnknownType(message, addr) == Ignore

\* The body of the loop of PkServer.run: data.decode raises
\* UnicodeDecodeError, which `except json.JSONDecodeError` does not catch;
\* json.loads raises JSONDecodeError, and the loop continues; a value that
\* is no dict has no .get, and _handle_message raises AttributeError.
Dispatch(raw, addr) ==
    IF ~raw.utf8 THEN Crash
    ELSE IF ~raw.json THEN Ignore
    ELSE IF ~raw.object THEN Crash
    ELSE IF raw.type \notin KnownTypes THEN UnknownType(raw, addr)
    ELSE Ignore

Stray(env) ==
    \E raw \in StrayDatagrams :
        /\ running
        /\ Dispatch(raw, Addr(1))
        /\ Observe(env, Datagram(raw, Addr(1)))
        /\ UNCHANGED now

\* Two peers that register under either name, each from a socket of its own
\* or from the one they share; ids that are null, a list or empty; register
\* messages with absent, blank and null fields, and with an address in the
\* payload.
DeskAddrs == [p \in {"a", "b"} |->
                 IF p = "a" THEN {Addr(1), Addr(2)} ELSE {Addr(2), Addr(3)}]

Desk == [Env({"a", "b"}, DeskAddrs, {NoneVal, ListVal, ""}, FewScores, TRUE, FALSE)
            EXCEPT !.names = Names, !.extra = OddRegisters \cup SpoofedRegisters]

NextDesk ==
    \/ Register(Desk)
    \/ Deregister(Desk)
    \/ Stray(Desk)

SpecDesk == Init /\ [][NextDesk]_vars

-----------------------------------------------------------------------------
(* Broadcasts on a network where sendto raises *)

\* The sendto call that raised OSError.
Raise(call) == [to |-> call.to, payload |-> call.payload, error |-> "OSError"]

Raised(call) == "error" \in DOMAIN call

\* The sendto calls of _broadcast_user_list when sendto raises for the
\* addresses in down: the calls before the first such address, then the
\* call that raised; the exception leaves the for loop.
BroadcastUserListUntil(registry, down) ==
    LET calls == BroadcastUserList(registry)
        failing == {i \in 1..Len(calls) : calls[i].to \in down}
        first == CHOOSE i \in failing : \A j \in failing : i <= j
    IN IF failing = {} THEN calls
       ELSE SubSeq(calls, 1, first - 1) \o <<Raise(calls[first])>>

\* The exception is caught neither in the handler nor in PkServer.run.
Propagate(calls) ==
    running' = (\A i \in 1..Len(calls) : ~Raised(calls[i]))

RegisterUnreachable(env) ==
    \E input \in RegisterInputs(env), down \in (SUBSET Addrs) \ {{}} :
        LET student_id == Strip(Str(input[1].student_id))
            name == Strip(Str(input[1].name))
        IN /\ running
           /\ student_id # "" /\ name # ""
           /\ clients' = Put(clients, student_id, ClientInfo(student_id, name, input[2]))
           /\ \E k \in DOMAIN clients' : clients'[k].addr \in down
           /\ sent' = BroadcastUserListUntil(clients', down)
           /\ Propagate(sent')
           /\ UNCHANGED <<challenges, now>>
           /\ Observe(env, Datagram(input[1], input[2]))

DeregisterUnreachable(env) ==
    \E message \in DeregisterMsgs(env), down \in (SUBSET Addrs) \ {{}} :
        /\ running
        /\ message.student_id \in DOMAIN clients
        /\ clients' = Pop(clients, message.student_id)
        /\ \E k \in DOMAIN clients' : clients'[k].addr \in down
        /\ sent' = BroadcastUserListUntil(clients', down)
        /\ Propagate(sent')
        /\ UNCHANGED <<challenges, now>>
        /\ Observe(env, Datagram(message, NoAddr))

Wire == [Env({"a", "b"}, DeskAddrs, {}, FewScores, TRUE, FALSE) EXCEPT !.names = Names]

NextFaults ==
    \/ Register(Wire)
    \/ Deregister(Wire)
    \/ RegisterUnreachable(Wire)
    \/ DeregisterUnreachable(Wire)

SpecFaults == Init /\ [][NextFaults]_vars

-----------------------------------------------------------------------------
(* The widgets of one host: who owns the coordinator, and the peer agents *)

\* The id a widget's user registers under.
OwnId(w) == IF w = 1 THEN "a" ELSE "b"

\* A bind that succeeds although the port is held.
PortTakenNever == FALSE

\* self.sock.bind((self.host, self.port)) raises OSError: the port is held
\* by the socket of a coordinator, one that serves or one that was stopped
\* and whose thread is still in recvfrom.
PortTaken == \E v \in Widgets : server[v] \in {"serving", "stopping"}

\* PkModeWidget._ensure_server, called once from __init__: PkServer() binds
\* the port and start() runs the loop, or the OSError of bind is caught and
\* self.server is None.
EnsureServer(w) ==
    /\ server[w] = "none"
    /\ IF PortTaken
       THEN /\ server' = [server EXCEPT ![w] = "failed"]
            /\ UNCHANGED <<clients, challenges, running, sent>>
       ELSE /\ server' = [server EXCEPT ![w] = "serving"]
            /\ clients' = EmptyMap
            /\ challenges' = EmptyMap
            /\ running' = TRUE
            /\ sent' = <<>>
    /\ UNCHANGED <<now, last, offered, evaluated, agent, dialog>>

\* PkClient.__init__: a socket of its own, no identity.  The fields call and
\* out hold the latest method called and what it passed to _send; given is
\* the student_id argument of the latest register call.
PkClient ==
    [state |-> "open", student_id |-> NoneVal, name |-> NoneVal, given |-> NoneVal,
     call |-> "__init__", out |-> <<>>]

\* PkClient.register
PkRegister(self, student_id, name) ==
    [self EXCEPT !.student_id = student_id, !.name = name, !.given = student_id,
                 !.call = "register",
                 !.out = <<RegisterMsg(student_id, name)>>]

\* A guard that lets every call through.
AnonymousNever(self) == FALSE

\* `if not self.student_id: return`
Anonymous(self) == self.student_id \in {NoneVal, ""}

\* PkClient.deregister
PkDeregister(self) ==
    IF Anonymous(self)
    THEN [self EXCEPT !.call = "deregister", !.out = <<>>]
    ELSE [self EXCEPT !.call = "deregister",
                      !.out = <<[type |-> "deregister", student_id |-> self.student_id]>>]

\* PkClient.request_challenge
PkRequestChallenge(self, target_id) ==
    IF Anonymous(self)
    THEN [self EXCEPT !.call = "request_challenge", !.out = <<>>]
    ELSE [self EXCEPT !.call = "request_challenge",
                      !.out = <<[type |-> "challenge_request",
                                 student_id |-> self.student_id,
                                 target_id |-> target_id]>>]

\* PkClient.respond_challenge
PkRespondChallenge(self, challenger_id, accepted) ==
    IF Anonymous(self)
    THEN [self EXCEPT !.call = "respond_challenge", !.out = <<>>]
    ELSE [self EXCEPT !.call = "respond_challenge",
                      !.out = <<[type |-> "challenge_response",
                                 student_id |-> self.student_id,
                                 challenger_id |-> challenger_id,
                                 accepted |-> accepted]>>]

\* PkClient.submit_result
PkSubmitResult(self, challenge_id, accuracy, speed) ==
    IF Anonymous(self)
    THEN [self EXCEPT !.call = "submit_result", !.out = <<>>]
    ELSE [self EXCEPT !.call = "submit_result",
                      !.out = <<[type |-> "result", challenge_id |-> challenge_id,
                                 student_id |-> self.student_id,
                                 accuracy |-> accuracy, speed |-> speed]>>]

\* PkClient.send_progress
PkSendProgress(self, challenge_id, accuracy, speed, progress) ==
    IF Anonymous(self)
    THEN [self EXCEPT !.call = "send_progress", !.out = <<>>]
    ELSE [self EXCEPT !.call = "send_progress",
                      !.out = <<[type |-> "progress", challenge_id |-> challenge_id,
                                 student_id |-> self.student_id,
                                 accuracy |-> accuracy, speed |-> speed,
                                 progress |-> progress]>>]

\* PkClient.close
PkClose(self) == [self EXCEPT !.state = "closed", !.call = "close", !.out = <<>>]

\* A call of a method of the agent of widget w.
Call(w, after) ==
    /\ agent' = [agent EXCEPT ![w] = after]
    /\ UNCHANGED <<clients, challenges, now, running, last, sent, offered, evaluated,
                   server, dialog>>

Construct(w) ==
    /\ agent[w].state = "none"
    /\ Call(w, PkClient)

\* PkModeWidget._on_connect with a valid id and name: the agent is created
\* if there is none, and registers.
Connect(w) ==
    /\ server[w] \in {"serving", "failed"}
    /\ agent[w].state \in {"none", "open"}
    /\ Call(w, PkRegister(IF agent[w].state = "none" THEN PkClient ELSE agent[w],
                          OwnId(w), "n1"))

AgentDeregister(w) ==
    /\ agent[w].state = "open"
    /\ Call(w, PkDeregister(agent[w]))

AgentRequestChallenge(w) ==
    \E target_id \in {OwnId(v) : v \in Widgets} :
        /\ agent[w].state = "open"
        /\ Call(w, PkRequestChallenge(agent[w], target_id))

\* PkModeWidget._on_disconnect
Disconnect(w) ==
    /\ agent[w].state = "open"
    /\ Call(w, PkClose(PkDeregister(agent[w])))

\* PkModeWidget.shutdown: the dialog is closed, the agent deregisters and
\* closes; then
\* PkServer.stop clears the event and closes the socket, while the thread is
\* in recvfrom.  Closing a socket from another thread either makes the
\* pending recvfrom raise OSError, and the loop breaks, or leaves it waiting
\* with the port held: the socket has no timeout, and join(timeout=1) gives
\* up after a second.
Shutdown(w) ==
    /\ server[w] \in {"serving", "failed"}
    /\ agent' = IF agent[w].state = "open"
                THEN [agent EXCEPT ![w] = PkClose(PkDeregister(@))]
                ELSE agent
    /\ IF server[w] = "serving"
       THEN \E outcome \in {"exited", "stopping"} :
               /\ server' = [server EXCEPT ![w] = outcome]
               /\ running' = (running /\ outcome = "stopping")
       ELSE /\ server' = [server EXCEPT ![w] = "off"]
            /\ UNCHANGED running
    /\ dialog' = [dialog EXCEPT ![w] = NoDialog[w]]
    /\ UNCHANGED <<clients, challenges, now, last, sent, offered, evaluated>>

\* A register datagram reaches the socket of a stopped coordinator whose
\* thread is still in recvfrom: recvfrom returns it, nothing reads the event
\* before _handle_message, and _handle_register stores the record; the
\* first sendto of the broadcast raises on the closed socket and the thread
\* ends.
LateDatagram(env) ==
    \E w \in Widgets, input \in RegisterInputs(env) :
        LET student_id == Strip(Str(input[1].student_id))
            name == Strip(Str(input[1].name))
        IN /\ server[w] = "stopping"
           /\ student_id # "" /\ name # ""
           /\ clients' = Put(clients, student_id, ClientInfo(student_id, name, input[2]))
           /\ sent' = BroadcastUserListUntil(clients', Addrs)
           /\ running' = FALSE
           /\ server' = [server EXCEPT ![w] = "exited"]
           /\ last' = Datagram(input[1], input[2])
           /\ UNCHANGED <<challenges, now, offered, evaluated, agent, dialog>>

\* The datagrams of the agents of the two widgets.
App == Env({"a", "b"}, PairAddrs, {}, FewScores, TRUE, FALSE)

\* The coordinator that holds the port and serves handles a datagram.
Serve ==
    /\ \E w \in Widgets : server[w] = "serving"
    /\ (Register(App) \/ Deregister(App))

\* No widget has been constructed.
InitApp ==
    /\ clients = EmptyMap
    /\ challenges = EmptyMap
    /\ now = 0
    /\ running = FALSE
    /\ last = Datagram([type |-> "none"], NoAddr)
    /\ sent = <<>>
    /\ offered = {}
    /\ evaluated = {}
    /\ server = [w \in Widgets |-> "none"]
    /\ agent = NoAgent
    /\ dialog = NoDialog

NextApp ==
    \/ \E w \in Widgets : EnsureServer(w)
    \/ \E w \in Widgets : Construct(w)
    \/ \E w \in Widgets : Connect(w)
    \/ \E w \in Widgets : AgentDeregister(w)
    \/ \E w \in Widgets : AgentRequestChallenge(w)
    \/ \E w \in Widgets : Disconnect(w)
    \/ \E w \in Widgets : Shutdown(w)
    \/ Serve
    \/ LateDatagram(App)

SpecApp == InitApp /\ [][NextApp]_vars

-----------------------------------------------------------------------------
(* The methods of the peer agents, called in any order *)

\* The ids a user registers under: the widget's own, or "c".
AgentIds(w) == {OwnId(w), "c"}

AgentRegister(w) ==
    \E student_id \in AgentIds(w) :
        /\ agent[w].state = "open"
        /\ Call(w, PkRegister(agent[w], student_id, "n1"))

AgentRespondChallenge(w) ==
    \E challenger_id \in {OwnId(v) : v \in Widgets} :
        /\ agent[w].state = "open"
        /\ Call(w, PkRespondChallenge(agent[w], challenger_id, "true"))

AgentSubmitResult(w) ==
    \E score \in FewScores :
        /\ agent[w].state = "open"
        /\ Call(w, PkSubmitResult(agent[w], MakeChallengeId("a", "b", 0),
                                  AccuracyOf(score), SpeedOf(score)))

AgentSendProgress(w) ==
    /\ agent[w].state = "open"
    /\ Call(w, PkSendProgress(agent[w], MakeChallengeId("a", "b", 0),
                              Num(Unit), Num(40000000), Num(Unit \div 2)))

AgentClose(w) ==
    /\ agent[w].state = "open"
    /\ Call(w, PkClose(agent[w]))

NextAgent ==
    \/ \E w \in Widgets : Construct(w)
    \/ \E w \in Widgets : AgentRegister(w)
    \/ \E w \in Widgets : AgentDeregister(w)
    \/ \E w \in Widgets : AgentRequestChallenge(w)
    \/ \E w \in Widgets : AgentRespondChallenge(w)
    \/ \E w \in Widgets : AgentSubmitResult(w)
    \/ \E w \in Widgets : AgentSendProgress(w)
    \/ \E w \in Widgets : AgentClose(w)

SpecAgent == InitApp /\ [][NextAgent]_vars

-----------------------------------------------------------------------------
(* ChallengeDialog: the countdown, the edits of the text, the submission *)

\* self.essay_content, the passage to type, as its characters.
Passage == <<"x", "y">>

\* What user_text can hold: the texts over two characters up to MaxTyped.
Texts == UNION {[1..n -> {"x", "y"}] : n \in 0..MaxTyped}

\* words_per_minute depends on the time elapsed: 35 or 40.
Speeds == {Num(35000000), Num(40000000)}

\* The accuracy of self.stats after correct_letters and total_letters are
\* set from typed: 1.0 for no letters.
Accuracy(typed, target) ==
    LET compare_len == Min(Len(typed), Len(target))
        correct_chars == Cardinality({idx \in 1..compare_len : typed[idx] = target[idx]})
    IN IF Len(typed) = 0 THEN Unit ELSE (correct_chars * Unit) \div Len(typed)

\* min(len(typed) / len(target), 1.0), and 0.0 for an empty target.
ProgressOf(typed, target) ==
    IF target = <<>> THEN 0 ELSE Min((Len(typed) * Unit) \div Len(target), Unit)

\* A completion test that does not read self.submitted.
CompletesAgain(self, typed, target) == target # <<>> /\ typed = target

\* `if target and typed == target and not self.submitted:`
Completes(self, typed, target) == target # <<>> /\ typed = target /\ ~self.submitted

\* The dialog and the agent after the body of _on_text_change that follows
\* _highlight_text: the progress is reported; on completion the flag is
\* set, the progress 1.0 is reported, the text becomes read only and
\* submit_result is called.
AfterChange(both, typed, target, challenge_id, speed) ==
    LET self == both.dialog
        reported == PkSendProgress(both.agent, challenge_id,
                                   Num(Accuracy(typed, target)), speed,
                                   Num(ProgressOf(typed, target)))
    IN IF Completes(self, typed, target)
       THEN [dialog |-> [self EXCEPT !.submitted = TRUE, !.readOnly = TRUE,
                                     !.submits = @ + 1],
             agent |-> PkSubmitResult(
                           PkSendProgress(reported, challenge_id, Num(Unit), speed, Num(Unit)),
                           challenge_id, Num(Unit), speed)]
       ELSE [dialog |-> self, agent |-> reported]

\* _on_text_change for the text typed.  _highlight_text sets character
\* formats in the document, for which the document may emit textChanged
\* again: the handler then runs nested, to completion, before the body of
\* the call that was interrupted goes on.
RECURSIVE OnTextChange(_, _, _, _, _, _)
OnTextChange(both, typed, target, challenge_id, speed, nest) ==
    IF both.dialog.readOnly THEN both
    ELSE AfterChange(IF nest = 0 THEN both
                     ELSE OnTextChange(both, typed, target, challenge_id, speed, nest - 1),
                     typed, target, challenge_id, speed)

\* A step of a widget that changes its dialog and calls its agent.
DialogStep(w, both) ==
    /\ dialog' = [dialog EXCEPT ![w] = both.dialog]
    /\ agent' = [agent EXCEPT ![w] = both.agent]
    /\ UNCHANGED <<clients, challenges, now, running, last, sent, offered, evaluated,
                   server>>

\* PkModeWidget._handle_start_challenge: the dialog of the challenge is
\* created, read only, with the countdown at 5 and its timer started.
HandleStartChallenge(w) ==
    /\ agent[w].state = "open"
    /\ dialog[w].state = "none"
    /\ DialogStep(w, [agent |-> agent[w],
                      dialog |-> [state |-> "open", countdown_value |-> CountdownFrom,
                                  timer |-> TRUE, readOnly |-> TRUE, typed |-> <<>>,
                                  submitted |-> FALSE, submits |-> 0]])

\* ChallengeDialog._tick_countdown, once a second while the timer runs: the
\* count goes down; at 0 the timer stops, the text can be edited, the stats
\* are reset and the progress 0.0 is reported with accuracy 1.0 and speed 0.
TickCountdown(w) ==
    /\ dialog[w].state = "open"
    /\ dialog[w].timer
    /\ IF dialog[w].countdown_value > 0
       THEN DialogStep(w, [agent |-> agent[w],
                           dialog |-> [dialog[w] EXCEPT !.countdown_value = @ - 1]])
       ELSE DialogStep(w, [agent |-> PkSendProgress(agent[w], MakeChallengeId("a", "b", 0),
                                                    Num(Unit), Num(0), Num(0)),
                           dialog |-> [dialog[w] EXCEPT !.timer = FALSE,
                                                        !.readOnly = FALSE]])

\* The user changes the text, which a read-only QTextEdit does not allow,
\* and textChanged calls _on_text_change.
TextChange(w) ==
    \E typed \in Texts \ {dialog[w].typed}, speed \in Speeds, nest \in 0..MaxNest :
        /\ dialog[w].state = "open"
        /\ ~dialog[w].readOnly
        /\ agent[w].state = "open"
        /\ DialogStep(w, OnTextChange([agent |-> agent[w],
                                       dialog |-> [dialog[w] EXCEPT !.typed = typed]],
                                      typed, Passage, MakeChallengeId("a", "b", 0),
                                      speed, nest))

\* The agents of the two widgets are registered as "a" and "b".
InitDialog ==
    /\ clients = [p \in {"a", "b"} |->
                     ClientInfo(p, "n1", IF p = "a" THEN Addr(1) ELSE Addr(3))]
    /\ challenges = EmptyMap
    /\ now = 0
    /\ running = TRUE
    /\ last = Datagram(RegisterMsg("b", "n1"), Addr(3))
    /\ sent = BroadcastUserList(clients)
    /\ offered = {}
    /\ evaluated = {}
    /\ server = [w \in Widgets |-> IF w = 1 THEN "serving" ELSE "failed"]
    /\ agent = [w \in Widgets |-> PkRegister(PkClient, OwnId(w), "n1")]
    /\ dialog = NoDialog

NextDialog ==
    \/ \E w \in Widgets : HandleStartChallenge(w)
    \/ \E w \in Widgets : TickCountdown(w)
    \/ \E w \in Widgets : TextChange(w)

SpecDialog == InitDialog /\ [][NextDialog]_vars

-----------------------------------------------------------------------------
(* Claims *)

\* The step handles a datagram of this type.
Handled(type) == now' = now /\ last'.payload.type = type

\* The indices of sent' that hold a datagram of this type.
SentNow(type) == {i \in 1..Len(sent') : sent'[i].payload.type = type}

Distance(x, y) == IF x < y THEN y - x ELSE x - y

\* The challenge_result of the step names `winner` for the challenge of
\* sides c and o, whose recorded results are both in the message.
BothScored(payload, c, o) == c \in DOMAIN payload.results /\ o \in DOMAIN payload.results

\* C5: when the results of both sides are recorded and their accuracies
\* differ by more than 1e-6, every challenge_result sent names the side with
\* the higher accuracy as the winner, whatever the speeds.
C5_AccuracyDecides ==
    [][\A i \in SentNow("challenge_result") :
        LET payload == sent'[i].payload
            challenge == challenges[payload.challenge_id]
            c == challenge.challenger.student_id
            o == challenge.opponent.student_id
        IN (/\ Handled("result")
            /\ BothScored(payload, c, o)
            /\ Distance(payload.results[c].accuracy, payload.results[o].accuracy) > Epsilon)
           => payload.winner = IF payload.results[c].accuracy > payload.results[o].accuracy
                               THEN c ELSE o]_vars

\* The side with accuracy 0.95 and speed 40 has won over 0.90 and speed 55.
C5_Witness ==
    \E i \in SentOfType("challenge_result") :
        LET payload == sent[i].payload
        IN /\ DOMAIN payload.results = {"a", "b"}
           /\ payload.results["b"] = [accuracy |-> 950000, speed |-> 40000000]
           /\ payload.results["a"] = [accuracy |-> 900000, speed |-> 55000000]
           /\ payload.winner = "b"

\* C6: when the results of both sides are recorded and their accuracies
\* differ by at most 1e-6, the winner of every challenge_result sent is the
\* side with the higher speed if the speeds differ by more than 1e-6, and
\* None (no winner) otherwise.
C6_SpeedBreaksTie ==
    [][\A i \in SentNow("challenge_result") :
        LET payload == sent'[i].payload
            challenge == challenges[payload.challenge_id]
            c == challenge.challenger.student_id
            o == challenge.opponent.student_id
        IN (/\ Handled("result")
            /\ BothScored(payload, c, o)
            /\ Distance(payload.results[c].accuracy, payload.results[o].accuracy) <= Epsilon)
           => payload.winner =
                 IF Distance(payload.results[c].speed, payload.results[o].speed) > Epsilon
                 THEN (IF payload.results[c].speed > payload.results[o].speed THEN c ELSE o)
                 ELSE NoneVal]_vars

\* Accuracies 0.90 and 0.900001 (1e-6 apart, so not decisive) with speeds 55
\* and 40: the side with speed 55 has won.
C6_Witness ==
    \E i \in SentOfType("challenge_result") :
        LET payload == sent[i].payload
        IN /\ DOMAIN payload.results = {"a", "b"}
           /\ payload.results["a"] = [accuracy |-> 900000, speed |-> 55000000]
           /\ payload.results["b"] = [accuracy |-> 900001, speed |-> 40000000]
           /\ payload.winner = "a"

\* The description of a peer that other peers are given.
ViewOf(client) ==
    [student_id |-> client.student_id, name |-> client.name, ip |-> client.addr[1]]

\* C7: handling a challenge_response between two registered peers with
\* accepted=true writes exactly one record (the two sides, a passage, no
\* results) into the table, leaves every other record as it was, and sends
\* two start_challenge messages, one to the challenger's address and one to
\* the responder's, both with the id of that record, its passage and the two
\* public views; with accepted=false the table is unchanged and no
\* start_challenge is sent.
C7_AcceptStartsChallenge ==
    [][LET message == last'.payload
           starts == SentNow("start_challenge")
       IN (/\ Handled("challenge_response")
           /\ message.challenger_id \in DOMAIN clients
           /\ message.student_id \in DOMAIN clients)
          => LET challenger == clients[message.challenger_id]
                 responder == clients[message.student_id]
             IN IF message.accepted = "true"
                THEN \E challenge_id \in DOMAIN challenges' :
                        /\ challenges'[challenge_id].challenger = challenger
                        /\ challenges'[challenge_id].opponent = responder
                        /\ challenges'[challenge_id].essay \in Essays
                        /\ challenges'[challenge_id].results = EmptyMap
                        /\ DOMAIN challenges' = DOMAIN challenges \cup {challenge_id}
                        /\ \A k \in DOMAIN challenges \ {challenge_id} :
                              challenges'[k] = challenges[k]
                        /\ Cardinality(starts) = 2
                        /\ \A i \in starts :
                              sent'[i].payload =
                                  [type |-> "start_challenge",
                                   challenge_id |-> challenge_id,
                                   essay |-> challenges'[challenge_id].essay,
                                   participants |-> <<ViewOf(challenger), ViewOf(responder)>>]
                        /\ \E i \in starts, j \in starts :
                              /\ i # j
                              /\ sent'[i].to = challenger.addr
                              /\ sent'[j].to = responder.addr
                ELSE challenges' = challenges /\ starts = {}]_vars

\* "a" has accepted the challenge of "b": the record is in the table and the
\* start message went to the two different addresses.
C7_Witness ==
    /\ last.payload.type = "challenge_response"
    /\ last.payload.accepted = "true"
    /\ last.payload.challenger_id = "b"
    /\ last.payload.student_id = "a"
    /\ \E i \in SentOfType("start_challenge"), j \in SentOfType("start_challenge") :
          /\ sent[i].to # sent[j].to
          /\ sent[i].payload.challenge_id \in DOMAIN challenges

\* C8: a challenge_response whose challenger or responder is not registered
\* sends nothing and changes neither the registry nor the table; otherwise
\* exactly one challenge_response is sent, to the challenger's address, with
\* the decision of the message (accepted or declined) and the responder's
\* public view.
C8_DecisionRelayed ==
    [][LET message == last'.payload
           relays == SentNow("challenge_response")
       IN Handled("challenge_response")
          => IF \/ message.challenger_id \notin DOMAIN clients
                \/ message.student_id \notin DOMAIN clients
             THEN /\ sent' = <<>>
                  /\ clients' = clients
                  /\ challenges' = challenges
             ELSE /\ Cardinality(relays) = 1
                  /\ \A i \in relays :
                        /\ sent'[i].to = clients[message.challenger_id].addr
                        /\ sent'[i].payload =
                              [type |-> "challenge_response",
                               accepted |-> (message.accepted = "true"),
                               from |-> ViewOf(clients[message.student_id])]]_vars

\* A registered peer has declined the challenge of another registered peer
\* and the refusal has been relayed.
C8_Witness ==
    /\ last.payload.type = "challenge_response"
    /\ last.payload.accepted = "false"
    /\ last.payload.challenger_id \in DOMAIN clients
    /\ last.payload.student_id \in DOMAIN clients
    /\ last.payload.challenger_id # last.payload.student_id
    /\ Len(sent) = 1
    /\ sent[1].payload.type = "challenge_response"
    /\ sent[1].payload.accepted = FALSE

\* C10: a challenge_request whose target is not registered sends nothing and
\* changes neither the registry nor the table.
C10_UnknownTargetIgnored ==
    [][(/\ Handled("challenge_request")
        /\ last'.payload.target_id \notin DOMAIN clients)
       => /\ sent' = <<>>
          /\ clients' = clients
          /\ challenges' = challenges]_vars

\* A registered peer has asked for a peer that is not registered, while
\* another peer is registered: nothing was sent.
C10_Witness ==
    /\ last.payload.type = "challenge_request"
    /\ last.payload.student_id \in DOMAIN clients
    /\ last.payload.target_id \in {"a", "a-a", "b"} \ DOMAIN clients
    /\ Cardinality(DOMAIN clients) = 2
    /\ sent = <<>>

\* The two sides of the record are different peers.
TwoSided(challenge) == challenge.challenger.student_id # challenge.opponent.student_id

\* C1: a challenge is evaluated exactly once.  No challenge_result is sent
\* for a challenge_id for which one was sent before; and a record of the
\* table (between two different peers) is neither lost nor overwritten
\* before its evaluation: while it stays in the table it keeps its sides,
\* its passage and the results recorded so far, and it leaves the table
\* only with a challenge_result that holds the results of both its sides.
C1_EvaluatedExactlyOnce ==
    [][now' = now =>
        /\ \A i \in SentNow("challenge_result") :
              sent'[i].payload.challenge_id \notin evaluated
        /\ \A k \in {x \in DOMAIN challenges : TwoSided(challenges[x])} :
              IF k \in DOMAIN challenges'
              THEN /\ challenges'[k].challenger = challenges[k].challenger
                   /\ challenges'[k].opponent = challenges[k].opponent
                   /\ challenges'[k].essay = challenges[k].essay
                   /\ DOMAIN challenges[k].results \subseteq DOMAIN challenges'[k].results
              ELSE \E i \in SentNow("challenge_result") :
                      /\ sent'[i].payload.challenge_id = k
                      /\ BothScored(sent'[i].payload,
                                    challenges[k].challenger.student_id,
                                    challenges[k].opponent.student_id)]_vars

\* C2: the challenge_result of a challenge (between two different peers) is
\* sent only by a step that handles the result of one of its two sides, and
\* only once the results of both its sides are recorded.
C2_BothSidesReported ==
    [][\A i \in SentNow("challenge_result") :
        LET payload == sent'[i].payload
            challenge == challenges[payload.challenge_id]
            c == challenge.challenger.student_id
            o == challenge.opponent.student_id
        IN (Handled("result") /\ TwoSided(challenge))
           => /\ last'.payload.student_id \in {c, o}
              /\ BothScored(payload, c, o)]_vars

\* C3: the evaluation of a challenge takes its record out of the table, and
\* from then on a result message with that challenge_id, sent by a peer that
\* is not challenging itself, sends nothing and changes neither the table
\* nor the registry.
C3_LateResultIgnored ==
    [][/\ \A k \in evaluated' \ evaluated : k \notin DOMAIN challenges'
       /\ (/\ Handled("result")
           /\ last'.payload.challenge_id \in evaluated
           /\ \A k \in DOMAIN challenges : TwoSided(challenges[k]))
          => /\ sent' = <<>>
             /\ challenges' = challenges
             /\ clients' = clients]_vars

\* C4: the challenge_id allocated by an accepted challenge_response is the
\* id of no challenge that is active when the response is handled.
C4_FreshChallengeId ==
    [][\A i \in SentNow("start_challenge") :
        Handled("challenge_response")
        => sent'[i].payload.challenge_id \notin DOMAIN challenges]_vars

\* C9: a challenge between challenger X and another peer Y is started only
\* after a challenge_request of X naming Y has been relayed to Y, and a
\* challenge_result is sent only for a challenge that is in the table.
C9_ActiveOnlyAfterOffer ==
    [][/\ \A i \in SentNow("start_challenge") :
            (/\ Handled("challenge_response")
             /\ last'.payload.challenger_id # last'.payload.student_id)
            => <<sent'[i].payload.participants[1].student_id,
                 sent'[i].payload.participants[2].student_id>> \in offered
       /\ \A i \in SentNow("challenge_result") :
            Handled("result") => sent'[i].payload.challenge_id \in DOMAIN challenges]_vars

\* C11: a challenge_request of a registered requester that names a
\* registered target sends exactly one datagram, a challenge_request offer
\* to the target's address that carries the requester's public view, and
\* changes neither the registry nor the table.
C11_OfferRelayedToTarget ==
    [][LET message == last'.payload
       IN (/\ Handled("challenge_request")
           /\ message.student_id \in DOMAIN clients
           /\ message.target_id \in DOMAIN clients)
          => /\ sent' = << [to |-> clients[message.target_id].addr,
                            payload |-> [type |-> "challenge_request",
                                         from |-> ViewOf(clients[message.student_id])]] >>
             /\ clients' = clients
             /\ challenges' = challenges]_vars

\* "a" has asked for "b", registered at another address: the one datagram
\* sent is the offer, and it went to the address of "b".
C11_Witness ==
    /\ last.payload.type = "challenge_request"
    /\ last.payload.student_id = "a"
    /\ last.payload.target_id = "b"
    /\ {"a", "b"} \subseteq DOMAIN clients
    /\ clients["a"].addr # clients["b"].addr
    /\ Len(sent) = 1
    /\ sent[1].to = clients["b"].addr
    /\ sent[1].payload.from.student_id = "a"

\* The ids of the entries of a user_list, in order.
ListedIds(users) == [x \in 1..Len(users) |-> users[x].student_id]

\* The step sends one user_list per client of the registry as it is after
\* the step and nothing else: every address gets as many as clients use it,
\* and each carries the public view of every client, once.
BroadcastOf(registry, calls) ==
    /\ Len(calls) = Cardinality(DOMAIN registry)
    /\ \A k \in DOMAIN registry :
          Cardinality({i \in 1..Len(calls) : calls[i].to = registry[k].addr})
              = Cardinality({j \in DOMAIN registry : registry[j].addr = registry[k].addr})
    /\ \A i \in 1..Len(calls) :
          /\ calls[i].payload.type = "user_list"
          /\ Len(calls[i].payload.users) = Cardinality(DOMAIN registry)
          /\ {calls[i].payload.users[x] : x \in 1..Len(calls[i].payload.users)}
                 = {ViewOf(registry[k]) : k \in DOMAIN registry}

\* A field of a register message that is missing or empty after trimming.
Blank(value) == value \in {Absent, "", " "}

\* C12: the registry holds one record per peer_id, filed under that id, and
\* no user_list sent lists a peer_id twice; a register message for an id that
\* is registered keeps the set of registered ids and leaves that id with the
\* name and the address of the message.
C12_OneEntryPerPeer ==
    [][/\ \A k \in DOMAIN clients' : clients'[k].student_id = k
       /\ \A i \in SentNow("user_list") :
             LET ids == ListedIds(sent'[i].payload.users)
             IN \A x \in DOMAIN ids, y \in DOMAIN ids : ids[x] = ids[y] => x = y
       /\ (/\ Handled("register")
           /\ last'.payload.student_id \in DOMAIN clients
           /\ ~Blank(last'.payload.name) /\ last'.payload.name # NoneVal)
          => /\ DOMAIN clients' = DOMAIN clients
             /\ clients'[last'.payload.student_id].name = last'.payload.name
             /\ clients'[last'.payload.student_id].addr = last'.addr
             /\ \A k \in DOMAIN clients \ {last'.payload.student_id} :
                   clients'[k] = clients[k]]_vars

\* "a" has registered as "n2" from the second socket while "b" is
\* registered: the lists sent have two entries, the one of "a" with the
\* latest name.
C12_Witness ==
    /\ last.payload.type = "register"
    /\ last.payload.student_id = "a"
    /\ last.payload.name = "n2"
    /\ last.addr = Addr(2)
    /\ DOMAIN clients = {"a", "b"}
    /\ clients["a"] = [student_id |-> "a", name |-> "n2", addr |-> Addr(2)]
    /\ \E i \in SentOfType("user_list") :
          /\ Len(sent[i].payload.users) = 2
          /\ \E x \in 1..2 : sent[i].payload.users[x] =
                                  [student_id |-> "a", name |-> "n2", ip |-> "h1"]

\* C13: a register message whose id and name are not blank is answered with
\* one user_list per registered client, the registrant included, each sent
\* to that client's address and each carrying the public view of the whole
\* registry as it is after the registration.
C13_RegisterBroadcasts ==
    [][(/\ Handled("register")
        /\ ~Blank(last'.payload.student_id)
        /\ ~Blank(last'.payload.name))
       => /\ Str(last'.payload.student_id) \in DOMAIN clients'
          /\ clients'[Str(last'.payload.student_id)].addr = last'.addr
          /\ BroadcastOf(clients', sent')
          /\ \A i \in 1..Len(sent') : sent'[i].payload = sent'[1].payload]_vars

\* "b" has registered from a socket of its own while "a" is registered:
\* two equal lists of two entries went to two addresses.
C13_Witness ==
    /\ last.payload.type = "register"
    /\ last.payload.student_id = "b"
    /\ DOMAIN clients = {"a", "b"}
    /\ clients["a"].addr # clients["b"].addr
    /\ Len(sent) = 2
    /\ {sent[1].to, sent[2].to} = {clients["a"].addr, clients["b"].addr}
    /\ sent[1].payload = sent[2].payload
    /\ Len(sent[1].payload.users) = 2

\* C14: a register message whose id or name is missing, empty or blank sends
\* nothing and changes neither the registry nor the table; and no record of
\* the registry has an empty or blank id or name.
C14_BlankRegisterIgnored ==
    [][/\ (/\ Handled("register")
           /\ Blank(last'.payload.student_id) \/ Blank(last'.payload.name))
          => /\ sent' = <<>>
             /\ clients' = clients
             /\ challenges' = challenges
       /\ \A k \in DOMAIN clients' :
             /\ ~Blank(k)
             /\ ~Blank(clients'[k].student_id)
             /\ ~Blank(clients'[k].name)]_vars

\* The registry is not empty and a register message with a blank name has
\* been handled: nothing was sent.
C14_Witness ==
    /\ last.payload.type = "register"
    /\ last.payload.student_id = "a"
    /\ last.payload.name = " "
    /\ DOMAIN clients = {"b"}
    /\ sent = <<>>
    /\ running

\* C15: a deregister message whose id is not registered, or that has none,
\* sends nothing, changes neither the registry nor the table, and leaves
\* the loop running.
C15_UnknownDeregisterIgnored ==
    [][(/\ Handled("deregister")
        /\ last'.payload.student_id \notin DOMAIN clients)
       => /\ sent' = <<>>
          /\ clients' = clients
          /\ challenges' = challenges
          /\ running']_vars

\* With peers registered and a challenge active, a deregister message for
\* an id that is not registered has been handled: nothing was sent.
C15_Witness ==
    /\ last.payload.type = "deregister"
    /\ last.payload.student_id \in {"a", "a-a", "b"} \ DOMAIN clients
    /\ clients # EmptyMap
    /\ challenges # EmptyMap
    /\ sent = <<>>
    /\ running

\* C16: a deregister message for a registered id removes the record of that
\* id and no other, leaves the table as it is, and sends the user_list of
\* the remaining registry to the remaining clients; and whatever the step,
\* a user_list lists exactly the ids registered after the step and goes to
\* addresses of clients registered after the step, so a removed peer is
\* neither listed nor written to until it registers again.
C16_DeregisterRemoves ==
    [][/\ (/\ Handled("deregister")
           /\ last'.payload.student_id \in DOMAIN clients)
          => /\ DOMAIN clients' = DOMAIN clients \ {last'.payload.student_id}
             /\ \A k \in DOMAIN clients' : clients'[k] = clients[k]
             /\ challenges' = challenges
             /\ BroadcastOf(clients', sent')
       /\ \A i \in SentNow("user_list") :
             /\ {sent'[i].payload.users[x].student_id :
                    x \in 1..Len(sent'[i].payload.users)} = DOMAIN clients'
             /\ sent'[i].to \in {clients'[k].addr : k \in DOMAIN clients'}]_vars

\* "b" has deregistered: "a" and "a-a" remain and each was sent the list of
\* the two.
C16_Witness ==
    /\ last.payload.type = "deregister"
    /\ last.payload.student_id = "b"
    /\ DOMAIN clients = {"a", "a-a"}
    /\ Len(sent) = 2
    /\ \A i \in 1..2 :
          /\ sent[i].payload.type = "user_list"
          /\ Len(sent[i].payload.users) = 2
    /\ {sent[1].to, sent[2].to} = {Addr(1), Addr(2)}

\* C17: a result message of a registered peer for an active challenge
\* leaves the loop running, whatever its accuracy and speed are.
C17_LoopSurvivesResult ==
    [][(/\ Handled("result")
        /\ last'.payload.challenge_id \in DOMAIN challenges
        /\ last'.payload.student_id \in DOMAIN clients)
       => running']_vars

\* A JSON object that was decoded and whose type is none of the six.
Unrouted(datagram) ==
    /\ datagram.payload.type \notin KnownTypes
    /\ datagram.payload.utf8 /\ datagram.payload.json /\ datagram.payload.object

\* C18: a JSON object whose type is missing or is none of register,
\* deregister, challenge_request, challenge_response, progress and result
\* sends nothing, changes neither the registry nor the table, and leaves the
\* loop running.
C18_UnknownTypeIgnored ==
    [][Unrouted(last')
       => /\ sent' = <<>>
          /\ clients' = clients
          /\ challenges' = challenges
          /\ running']_vars

\* With two peers registered, an object of type "ping" has been handled:
\* nothing was sent and the loop runs.
C18_Witness ==
    /\ last.payload.type = "ping"
    /\ DOMAIN clients = {"a", "b"}
    /\ sent = <<>>
    /\ running

\* C19: when a sendto call of a step raises, the loop is still running after
\* the step, and every client whose address did not raise has been sent the
\* user_list.
C19_SendErrorSurvived ==
    [][(\E i \in 1..Len(sent') : Raised(sent'[i]))
       => /\ running'
          /\ \A k \in DOMAIN clients' :
                (\A i \in 1..Len(sent') : Raised(sent'[i]) => sent'[i].to # clients'[k].addr)
                => \E i \in 1..Len(sent') :
                      /\ sent'[i].to = clients'[k].addr
                      /\ sent'[i].payload.type = "user_list"]_vars

\* What the claim gives for a reported progress: the number held within 0
\* and 1, and 0 for what is absent or no number.
Clamped(value) ==
    IF value.kind # "num" THEN 0
    ELSE IF value.n > Unit THEN Unit
    ELSE IF value.n < 0 THEN 0
    ELSE value.n

\* C20: every progress_update relayed has a progress within 0 and 1: the
\* reported progress if it is within, 1 if it is above, 0 if it is below,
\* absent or no number; and it goes to both sides of the challenge.
C20_ProgressClamped ==
    [][Handled("progress")
       => \A i \in SentNow("progress_update") :
             /\ sent'[i].payload.progress >= 0
             /\ sent'[i].payload.progress <= Unit
             /\ sent'[i].payload.progress = Clamped(last'.payload.progress)]_vars

\* A progress of 1.7 has been relayed as 1.0 to the two sides.
C20_Witness ==
    /\ last.payload.type = "progress"
    /\ last.payload.progress = Num((17 * Unit) \div 10)
    /\ Len(sent) = 2
    /\ \A i \in 1..2 :
          /\ sent[i].payload.type = "progress_update"
          /\ sent[i].payload.progress = Unit
    /\ sent[1].to # sent[2].to

\* The ids of the two sides of a challenge.
Sides(challenge) == {challenge.challenger.student_id, challenge.opponent.student_id}

\* The progress message of the step names an active challenge and comes
\* from one of its two sides.
FromSide(message) ==
    /\ message.challenge_id \in DOMAIN challenges
    /\ message.student_id \in Sides(challenges[message.challenge_id])

\* C21: a progress message whose challenge_id is not in the table, or whose
\* student_id is not one of the two sides of that challenge, sends nothing
\* and changes neither the registry nor the table.
C21_ProgressIgnored ==
    [][(Handled("progress") /\ ~FromSide(last'.payload))
       => /\ sent' = <<>>
          /\ clients' = clients
          /\ challenges' = challenges]_vars

\* "a-a" is registered and is no side of the active challenge of "a" and
\* "b": its progress for that challenge has been handled, nothing was sent.
C21_Witness ==
    /\ last.payload.type = "progress"
    /\ last.payload.student_id = "a-a"
    /\ "a-a" \in DOMAIN clients
    /\ last.payload.challenge_id \in DOMAIN challenges
    /\ "a-a" \notin Sides(challenges[last.payload.challenge_id])
    /\ sent = <<>>

\* The number a progress_update carries for a reported number field: the
\* number, and 0 for what is absent or no number.
Reported(value) == IF value.kind = "num" THEN value.n ELSE 0

\* C22: a progress message of a side of an active challenge sends exactly
\* two progress_update messages, the first to the challenger and the second
\* to the opponent (so one of them to the sender), each with the sender's
\* id, accuracy, speed and progress; the registry and the table, recorded
\* results included, stay as they are.
C22_ProgressRelayedToBoth ==
    [][(Handled("progress") /\ FromSide(last'.payload))
       => LET message == last'.payload
              challenge == challenges[message.challenge_id]
          IN /\ Len(sent') = 2
             /\ sent'[1].to = challenge.challenger.addr
             /\ sent'[2].to = challenge.opponent.addr
             /\ \A i \in 1..2 :
                   /\ sent'[i].payload.type = "progress_update"
                   /\ sent'[i].payload.challenge_id = message.challenge_id
                   /\ sent'[i].payload.student_id = message.student_id
                   /\ sent'[i].payload.accuracy = Reported(message.accuracy)
                   /\ sent'[i].payload.speed = Reported(message.speed)
                   /\ sent'[i].payload.progress = Clamped(message.progress)
             /\ clients' = clients
             /\ challenges' = challenges]_vars

\* The progress of "b", the opponent, has gone to "a" and back to "b", and
\* the result of "a" is still the only one recorded.
C22_Witness ==
    /\ last.payload.type = "progress"
    /\ last.payload.student_id = "b"
    /\ Len(sent) = 2
    /\ sent[1].to = Addr(1)
    /\ sent[2].to = Addr(3)
    /\ \A i \in 1..2 : sent[i].payload.type = "progress_update"
                       /\ sent[i].payload.student_id = "b"
    /\ \E c \in DOMAIN challenges : DOMAIN challenges[c].results = {"a"}

\* C23: a result message whose challenge_id is not in the table, or whose
\* student_id is not registered, records nothing, evaluates nothing and
\* sends nothing.
C23_ResultIgnored ==
    [][(/\ Handled("result")
        /\ \/ last'.payload.challenge_id \notin DOMAIN challenges
           \/ last'.payload.student_id \notin DOMAIN clients)
       => /\ sent' = <<>>
          /\ challenges' = challenges
          /\ clients' = clients]_vars

\* The result of "c", who never registered, for the active challenge has
\* been handled: the challenge is still active with the one result of "a".
C23_Witness ==
    /\ last.payload.type = "result"
    /\ last.payload.student_id = "c"
    /\ "c" \notin DOMAIN clients
    /\ last.payload.challenge_id \in DOMAIN challenges
    /\ DOMAIN challenges[last.payload.challenge_id].results = {"a"}
    /\ sent = <<>>

\* The winner by accuracy first and speed second, None when neither differs
\* by more than 1e-6.
Outcome(c_stats, o_stats, c, o) ==
    IF Distance(c_stats.accuracy, o_stats.accuracy) > Epsilon
    THEN (IF c_stats.accuracy > o_stats.accuracy THEN c ELSE o)
    ELSE IF Distance(c_stats.speed, o_stats.speed) > Epsilon
    THEN (IF c_stats.speed > o_stats.speed THEN c ELSE o)
    ELSE NoneVal

\* C24: a result of a registered peer who is the only one with a recorded
\* result replaces that entry, keeps the challenge active and sends nothing;
\* and in every challenge_result the entry of the sender is the result just
\* received, the other entries are the ones recorded, and with both sides
\* in it the winner is the one these entries give.
C24_LastWriteWins ==
    [][Handled("result")
       => LET message == last'.payload
              c == message.challenge_id
              s == message.student_id
              stats == [accuracy |-> Reported(message.accuracy),
                        speed |-> Reported(message.speed)]
          IN /\ (/\ c \in DOMAIN challenges
                 /\ s \in DOMAIN clients
                 /\ DOMAIN challenges[c].results = {s})
                => /\ c \in DOMAIN challenges'
                   /\ challenges'[c].results = [k \in {s} |-> stats]
                   /\ sent' = <<>>
             /\ \A i \in SentNow("challenge_result") :
                   LET payload == sent'[i].payload
                       challenger == challenges[c].challenger.student_id
                       opponent == challenges[c].opponent.student_id
                   IN /\ payload.results[s] = stats
                      /\ \A k \in DOMAIN payload.results \ {s} :
                            payload.results[k] = challenges[c].results[k]
                      /\ BothScored(payload, challenger, opponent)
                         => payload.winner =
                               Outcome(payload.results[challenger],
                                       payload.results[opponent], challenger, opponent)]_vars

\* "a" reported speed 40 and then speed 35, "b" reported speed 40 at the
\* same accuracy: the challenge_result holds 35 for "a" and names "b".
C24_Witness ==
    \E i \in SentOfType("challenge_result") :
        LET payload == sent[i].payload
        IN /\ DOMAIN payload.results = {"a", "b"}
           /\ payload.results["a"] = [accuracy |-> 1000000, speed |-> 35000000]
           /\ payload.results["b"] = [accuracy |-> 1000000, speed |-> 40000000]
           /\ payload.winner = "b"
           /\ last.payload.student_id = "b"

\* C25: the results of every active challenge (between two different peers)
\* have at most two entries, and every key is the id of one of the two sides
\* of that challenge.
C25_ResultsOfSides ==
    \A c \in DOMAIN challenges :
        TwoSided(challenges[c])
        => /\ Cardinality(DOMAIN challenges[c].results) <= 2
           /\ DOMAIN challenges[c].results \subseteq Sides(challenges[c])

\* C26: the address of a record after a step is the address it had before
\* the step, unless the step handles a register message for that id, and
\* then it is the source address of that datagram, whatever the payload
\* says; and every datagram sent goes to the address of a record.
C26_AddressFromTransport ==
    [][/\ \A k \in DOMAIN clients' :
             \/ k \in DOMAIN clients /\ clients'[k].addr = clients[k].addr
             \/ Handled("register") /\ clients'[k].addr = last'.addr
       /\ (/\ Handled("register")
           /\ ~Blank(last'.payload.student_id)
           /\ ~Blank(last'.payload.name))
          => clients'[Str(last'.payload.student_id)].addr = last'.addr
       /\ \A i \in 1..Len(sent') :
             sent'[i].to \in {clients'[k].addr : k \in DOMAIN clients'}]_vars

\* "a" has registered from the first socket with the address of the third
\* in the payload: its record holds the first, and its user_list went there.
C26_Witness ==
    /\ last.payload.type = "register"
    /\ "addr" \in DOMAIN last.payload
    /\ last.payload.student_id = "a"
    /\ last.payload.addr = Addr(3)
    /\ last.addr = Addr(1)
    /\ clients["a"].addr = Addr(1)
    /\ \E i \in 1..Len(sent) : sent[i].to = Addr(1)
    /\ \A i \in 1..Len(sent) : sent[i].to # Addr(3)

\* The descriptions of peers that a payload carries.
Descriptions(payload) ==
    IF payload.type = "user_list"
    THEN {payload.users[x] : x \in 1..Len(payload.users)}
    ELSE IF payload.type \in {"challenge_request", "challenge_response"}
    THEN {payload.from}
    ELSE IF payload.type = "start_challenge"
    THEN {payload.participants[x] : x \in 1..Len(payload.participants)}
    ELSE {}

\* C27: every description of a peer in a datagram sent (the users of a
\* user_list, the from of a challenge_request and of a challenge_response,
\* the participants of a start_challenge) has exactly the fields student_id,
\* name and ip, and ip is the host of an address: no port is in it.
C27_NoPortDisclosed ==
    \A i \in 1..Len(sent) :
        \A d \in Descriptions(sent[i].payload) :
            /\ DOMAIN d = {"student_id", "name", "ip"}
            /\ d.ip \in {a[1] : a \in Addrs}

\* The start_challenge sent to "b" at port 5003 describes "a" by id, name
\* and host "h1", and "b" by id, name and host "h2".
C27_Witness ==
    \E i \in SentOfType("start_challenge") :
        /\ sent[i].to = Addr(3)
        /\ sent[i].payload.participants =
              << [student_id |-> "a", name |-> "n1", ip |-> "h1"],
                 [student_id |-> "b", name |-> "n1", ip |-> "h2"] >>

\* The widgets whose coordinator holds the port after the step.
Holders == {w \in Widgets : server'[w] \in {"serving", "stopping"}}

\* C28: a widget whose coordinator cannot bind the port, because the socket
\* of another coordinator holds it, gets the error and owns no coordinator,
\* and the registry, the table and the loop of the other are untouched; a
\* widget that finds the port free owns one that serves; at most one
\* coordinator holds the port; and the agent of a widget that owns no
\* coordinator registers as any other.
C28_OneCoordinator ==
    [][/\ \A w \in Widgets :
             (server[w] = "none" /\ server'[w] # "none")
             => IF \E v \in Widgets : server[v] \in {"serving", "stopping"}
                THEN /\ server'[w] = "failed"
                     /\ clients' = clients
                     /\ challenges' = challenges
                     /\ running' = running
                ELSE server'[w] = "serving"
       /\ Cardinality(Holders) <= 1
       /\ \A w \in Widgets :
             (/\ server[w] = "failed"
              /\ agent'[w] # agent[w]
              /\ agent'[w].call = "register")
             => /\ agent'[w].state = "open"
                /\ agent'[w].out = <<RegisterMsg(OwnId(w), "n1")>>]_vars

\* The first widget serves, the second found the port taken, and the agent
\* of the second has registered "b" with the coordinator of the first.
C28_Witness ==
    /\ server[1] = "serving"
    /\ server[2] = "failed"
    /\ agent[2].state = "open"
    /\ agent[2].student_id = "b"
    /\ last.payload.type = "register"
    /\ last.payload.student_id = "b"
    /\ "b" \in DOMAIN clients
    /\ running

\* C29: while a coordinator that was stopped still holds the port, no
\* datagram is handled and the registry stays as it is.
C29_NoDispatchAfterStop ==
    [][(\E w \in Widgets : server[w] = "stopping")
       => /\ last' = last
          /\ clients' = clients]_vars

\* C30: a deregister call of an agent that has an identity sends one
\* deregister message and leaves the agent without identity.
C30_DeregisterClearsIdentity ==
    [][\A w \in Widgets :
          (/\ agent'[w] # agent[w]
           /\ agent'[w].call = "deregister"
           /\ agent[w].student_id \notin {NoneVal, ""})
          => /\ Len(agent'[w].out) = 1
             /\ agent'[w].out[1].type = "deregister"
             /\ agent'[w].student_id = NoneVal]_vars

\* C31: an agent on which register has not been called passes nothing to
\* _send, whatever method is called; and every message an agent sends
\* carries the student_id given to its latest register call.
C31_IdentityOfRequests ==
    [][\A w \in Widgets :
          agent'[w] # agent[w]
          => /\ agent'[w].given = NoneVal => agent'[w].out = <<>>
             /\ \A i \in 1..Len(agent'[w].out) :
                   agent'[w].out[i].student_id = agent'[w].given]_vars

\* The first agent registered as "c" and its challenge request names "c" as
\* the sender; request_challenge was called on the second agent, which never
\* registered, and sent nothing.
C31_Witness ==
    /\ agent[1].call = "request_challenge"
    /\ agent[1].given = "c"
    /\ Len(agent[1].out) = 1
    /\ agent[1].out[1].type = "challenge_request"
    /\ agent[1].out[1].student_id = "c"
    /\ agent[2].call = "request_challenge"
    /\ agent[2].given = NoneVal
    /\ agent[2].out = <<>>

\* C32: a dialog calls submit_result at most once; the call is made in the
\* step of the first edit after which the text equals the passage, that
\* edit makes it whatever else the step does, and no call is made while the
\* countdown runs.
C32_SubmitOnce ==
    [][\A w \in Widgets :
          /\ dialog'[w].submits <= 1
          /\ dialog'[w].submits # dialog[w].submits
             => /\ dialog[w].state = "open"
                /\ ~dialog[w].timer
                /\ dialog[w].countdown_value = 0
                /\ dialog[w].typed # Passage
                /\ dialog'[w].typed = Passage
                /\ dialog'[w].submits = dialog[w].submits + 1
          /\ (/\ dialog[w].state = "open"
              /\ ~dialog[w].submitted
              /\ dialog'[w].typed = Passage
              /\ dialog'[w].typed # dialog[w].typed)
             => dialog'[w].submits = 1
          /\ dialog'[w].timer => dialog'[w].submits = 0]_vars

\* The first dialog has submitted once, in a step in which the handler ran
\* nested and the agent's last call was the progress report of the outer
\* run; the second dialog is still counting down.
C32_Witness ==
    /\ dialog[1].submits = 1
    /\ dialog[1].submitted
    /\ dialog[1].typed = Passage
    /\ dialog[1].readOnly
    /\ agent[1].call = "send_progress"
    /\ dialog[2].state = "open"
    /\ dialog[2].timer
    /\ dialog[2].submits = 0

\* The registered peers listen on pairwise different addresses.
ApartAddrs(table) ==
    \A p, q \in DOMAIN table : p # q => table[p].addr # table[q].addr

\* C33: the coordinator sends only in a step that handles a datagram, never
\* when only the clock moves; while the registered peers have addresses of
\* their own, the datagrams sent for one inbound datagram never hold the
\* same message twice for the same address; the last call of every agent
\* handed at most one datagram to _send.
C33_NothingRepeated ==
    [][/\ now' # now => sent' = sent
       /\ ApartAddrs(clients) /\ ApartAddrs(clients')
          => \A i, j \in 1..Len(sent') :
                i # j /\ sent'[i].to = sent'[j].to => sent'[i].payload # sent'[j].payload
       /\ \A w \in Widgets : Len(agent'[w].out) <= 1]_vars

\* The step handles a result message for challenge c and evaluates it.
EvaluatedNow(c) ==
    /\ Handled("result")
    /\ last'.payload.challenge_id = c
    /\ \E i \in SentNow("challenge_result") : sent'[i].payload.challenge_id = c

\* C34: a record that is in the table stays in it, with its sides, its
\* essay and the results it has or later ones of the same peers, in every
\* step but the one that handles a result message for it and evaluates it;
\* a record enters the table only in a step that handles an accepted
\* challenge_response and sends its start_challenge.
C34_RecordStaysUntilEvaluated ==
    [][/\ \A c \in DOMAIN challenges :
             \/ /\ c \in DOMAIN challenges'
                /\ challenges'[c].challenger = challenges[c].challenger
                /\ challenges'[c].opponent = challenges[c].opponent
                /\ challenges'[c].essay = challenges[c].essay
                /\ DOMAIN challenges[c].results \subseteq DOMAIN challenges'[c].results
             \/ EvaluatedNow(c)
       /\ \A c \in DOMAIN challenges' \ DOMAIN challenges :
             /\ Handled("challenge_response")
             /\ \E i \in SentNow("start_challenge") : sent'[i].payload.challenge_id = c]_vars

\* The agent of a peer after register(student_id, "n1").
Registered(student_id) == PkRegister(PkClient, student_id, "n1")

\* The step handles the datagram the last call of the agent handed to _send.
Delivered(self) == now' = now /\ last'.payload = self.out[1]

\* submit_result of a peer for challenge c with accuracy 1.0 and the speed,
\* and what _handle_result stores for it.
Submit(student_id, c, speed) ==
    PkSubmitResult(Registered(student_id), c, Num(Unit), Num(speed * Unit))

Stored(speed) == [accuracy |-> Unit, speed |-> speed * Unit]

\* C35: with A and B registered by their agents, the register that makes the
\* table hold both sends each a user_list of two entries; A's
\* request_challenge("b") reaches B; B's acceptance sends both one
\* start_challenge with the same challenge_id and passage and stores the
\* challenge; and when A's submit_result (1.0, 40) arrives after B's
\* (1.0, 35), or B's after A's, both are sent a challenge_result naming A.
C35_EndToEnd ==
    [][/\ (Delivered(Registered("a")) \/ Delivered(Registered("b")))
          /\ DOMAIN clients' = {"a", "b"}
          => \A p \in {"a", "b"} : \E i \in SentNow("user_list") :
                /\ sent'[i].to = clients'[p].addr
                /\ Len(sent'[i].payload.users) = 2
                /\ {sent'[i].payload.users[k].student_id : k \in 1..2} = {"a", "b"}
       /\ Delivered(PkRequestChallenge(Registered("a"), "b")) /\ DOMAIN clients = {"a", "b"}
          => \E i \in SentNow("challenge_request") :
                /\ sent'[i].to = clients["b"].addr
                /\ sent'[i].payload.from.student_id = "a"
       /\ Delivered(PkRespondChallenge(Registered("b"), "a", "true"))
          /\ DOMAIN clients = {"a", "b"}
          => \E c \in DOMAIN challenges', essay \in Essays :
                /\ challenges'[c].challenger.student_id = "a"
                /\ challenges'[c].opponent.student_id = "b"
                /\ \A p \in {"a", "b"} : \E i \in SentNow("start_challenge") :
                      /\ sent'[i].to = clients[p].addr
                      /\ sent'[i].payload.challenge_id = c
                      /\ sent'[i].payload.essay = [title |-> essay.title,
                                                   content |-> essay.content]
       /\ \A c \in DOMAIN challenges :
             /\ challenges[c].challenger.student_id = "a"
             /\ challenges[c].opponent.student_id = "b"
             /\ DOMAIN clients = {"a", "b"}
             /\ \/ Delivered(Submit("a", c, 40)) /\ challenges[c].results = ("b" :> Stored(35))
                \/ Delivered(Submit("b", c, 35)) /\ challenges[c].results = ("a" :> Stored(40))
             => \A p \in {"a", "b"} : \E i \in SentNow("challenge_result") :
                   /\ sent'[i].to = clients[p].addr
                   /\ sent'[i].payload.challenge_id = c
                   /\ sent'[i].payload.winner = "a"]_vars

\* A requested, B accepted, B submitted and then A: the challenge_result
\* naming A has gone to both.
C35_Witness ==
    /\ <<"a", "b">> \in offered
    /\ \E c \in evaluated :
          /\ last.payload = Submit("a", c, 40).out[1]
          /\ Len(sent) = 2
          /\ {sent[1].to, sent[2].to} = {Addr(1), Addr(3)}
          /\ \A i \in 1..2 : /\ sent[i].payload.type = "challenge_result"
                             /\ sent[i].payload.winner = "a"
                             /\ sent[i].payload.results
                                   = ("a" :> Stored(40) @@ "b" :> Stored(35))

\* C36: the challenger and the opponent of every active challenge are
\* different peers.
C36_DistinctSides == \A c \in DOMAIN challenges : TwoSided(challenges[c])

\* The stats _evaluate_challenge reads for a side: the recorded result, or
\* the empty dict, from which _select_winner reads accuracy 0 and speed 0.
StatsOfSide(results, side) ==
    IF side \in DOMAIN results THEN results[side] ELSE [accuracy |-> 0, speed |-> 0]

\* C37: the winner of every challenge_result is None or the id of one of
\* the two sides of its challenge, and it is the outcome of comparing the
\* results recorded for the sides, a side without a result counting as
\* accuracy 0 and speed 0, whoever else has a result in the record.
C37_WinnerIsASide ==
    [][Handled("result")
       => \A i \in SentNow("challenge_result") :
             LET message == sent'[i].payload
                 challenge == challenges[message.challenge_id]
                 c == challenge.challenger.student_id
                 o == challenge.opponent.student_id
             IN /\ message.winner \in Sides(challenge) \cup {NoneVal}
                /\ message.winner = Outcome(StatsOfSide(message.results, c),
                                            StatsOfSide(message.results, o), c, o)]_vars

\* The challenge of "a" and "b" was evaluated with the results of "a" and of
\* the outsider "a-a", whose accuracy is the higher one: "b" has none and
\* "a" is the winner.
C37_Witness ==
    /\ Len(sent) = 2
    /\ \A i \in 1..2 :
          /\ sent[i].payload.type = "challenge_result"
          /\ DOMAIN sent[i].payload.results = {"a", "a-a"}
          /\ sent[i].payload.results["a-a"].accuracy > sent[i].payload.results["a"].accuracy
          /\ sent[i].payload.winner = "a"

\* The addresses a challenge sends to.
AddrsOf(challenge) == {challenge.challenger.addr, challenge.opponent.addr}

\* C38: a record gets the ClientInfo of its sides from the registry in the
\* step that accepts it and keeps them in every other step, registrations
\* included; every progress_update and challenge_result goes to the
\* addresses of the record, and both of them get it, whatever addresses the
\* registry holds for the sides by then.
C38_AddressesOfAcceptance ==
    [][/\ \A c \in DOMAIN challenges' :
             \/ /\ c \in DOMAIN challenges
                /\ challenges'[c].challenger = challenges[c].challenger
                /\ challenges'[c].opponent = challenges[c].opponent
             \/ /\ Handled("challenge_response")
                /\ challenges'[c].challenger = clients[challenges'[c].challenger.student_id]
                /\ challenges'[c].opponent = clients[challenges'[c].opponent.student_id]
       /\ Handled("progress") \/ Handled("result")
          => \A i \in SentNow("progress_update") \cup SentNow("challenge_result") :
                LET challenge == challenges[sent'[i].payload.challenge_id]
                IN /\ sent'[i].to \in AddrsOf(challenge)
                   /\ AddrsOf(challenge) = {sent'[j].to : j \in 1..Len(sent')}]_vars

\* "b" accepted at one address and registered again from another: the
\* progress_update of the challenge went to the address of the record and
\* none to the address of "b" in the registry.
C38_Witness ==
    /\ last.payload.type = "progress"
    /\ last.payload.challenge_id \in DOMAIN challenges
    /\ LET challenge == challenges[last.payload.challenge_id]
       IN /\ challenge.challenger.student_id = "a"
          /\ challenge.opponent.student_id = "b"
          /\ "b" \in DOMAIN clients
          /\ clients["b"].addr \notin AddrsOf(challenge)
          /\ Len(sent) = 2
          /\ \A i \in 1..2 : sent[i].payload.type = "progress_update"
          /\ {sent[1].to, sent[2].to} = AddrsOf(challenge)

\* Side s of the active challenge c is not registered and no result of it
\* is recorded.
AwaySide(c, s) ==
    /\ TwoSided(challenges[c])
    /\ s \in Sides(challenges[c])
    /\ s \notin DOMAIN clients
    /\ s \notin DOMAIN challenges[c].results

\* The step handles a message of this type that names challenge c and
\* sender s.
HandledFrom(type, c, s) ==
    /\ Handled(type)
    /\ last'.payload.challenge_id = c
    /\ last'.payload.student_id = s

\* C39: while a side of an active challenge is deregistered and has no
\* result recorded, a result message of it changes nothing and sends
\* nothing, a progress message of it is relayed to both addresses of the
\* record, and no step evaluates the challenge.
C39_AwaySideBlocksEvaluation ==
    [][\A c \in DOMAIN challenges : \A s \in Sides(challenges[c]) :
          AwaySide(c, s)
          => /\ HandledFrom("result", c, s)
                => sent' = <<>> /\ challenges' = challenges /\ clients' = clients
             /\ HandledFrom("progress", c, s)
                => /\ {sent'[i].to : i \in SentNow("progress_update")}
                         = AddrsOf(challenges[c])
                   /\ challenges' = challenges
             /\ Handled("result")
                => /\ c \in DOMAIN challenges'
                   /\ \A i \in SentNow("challenge_result") :
                         sent'[i].payload.challenge_id # c]_vars

\* C40: a challenge_request whose sender is not registered sends nothing and
\* changes neither table, also when its target is registered; and every
\* challenge_request the coordinator sends names, with the name and host of
\* the registry, a peer that is registered in that step.
C40_UnregisteredRequesterIgnored ==
    [][Handled("challenge_request")
       => /\ last'.payload.student_id \notin DOMAIN clients
             => sent' = <<>> /\ clients' = clients /\ challenges' = challenges
          /\ \A i \in SentNow("challenge_request") :
                /\ sent'[i].payload.from.student_id \in DOMAIN clients
                /\ sent'[i].payload.from
                      = PublicView(clients[sent'[i].payload.from.student_id])]_vars

\* A challenge_request of the unregistered "a" against the registered "b"
\* has been handled and nothing was sent.
C40_Witness ==
    /\ last.payload.type = "challenge_request"
    /\ last.payload.student_id = "a"
    /\ last.payload.target_id = "b"
    /\ "a" \notin DOMAIN clients
    /\ "b" \in DOMAIN clients
    /\ sent = <<>>

=============================================================================
